---- MODULE Spec2Model ----
(***************************************************************************)
(* Verification model of the parker media server's ingestion core:         *)
(*   - app/services/scan_manager.py : the singleton scan scheduler         *)
(*   - app/services/thumbnailer.py  : the sequential and the parallel      *)
(*                                    thumbnail pipeline                    *)
(*   - app/services/archive.py      : the page list of a comic archive     *)
(*   - app/services/images.py       : get_page_image                       *)
(*   - app/api/reader.py            : the page endpoint                    *)
(* Each subsystem has its own specification (SpecScan, SpecThumb,          *)
(* SpecArchive, SpecPage); the variables of the other subsystems are held  *)
(* constant.                                                               *)
(***************************************************************************)
EXTENDS Naturals, Integers, Sequences, FiniteSets, TLC

\* ------------------------------------------------------------------------
\* Bounds of the model
\* ------------------------------------------------------------------------
\* library ids 1..NLibs
NLibs == 2
\* total number of requests add_task may put on the queue in one behaviour
MaxTasks == 2

\* comic ids 1..NComics; the last one belongs to library 2, the others to library 1
NComics == 3
\* _thumbnail_writer's batch_size (100 by default, thumbnailer.py:83), scaled down
\* so that a full batch and a final partial flush both occur within NComics items
BatchSize == 2
\* number of concurrent process_series_thumbnails updates during one run
MaxExternal == 1

\* largest number of entries of an archive whose page list is computed
MaxEntries == 3
\* largest number of entries of an archive a page is served from
MaxPageEntries == 2
\* largest number of items of the list a reader context names
MaxItems == 3

\* ------------------------------------------------------------------------
\* ScanManager state (scan_manager.py)
\* ------------------------------------------------------------------------
VARIABLES
    initialized,    \* ScanManager._initialized
    workerStarted,  \* number of worker threads __init__ has started
    queue,          \* self.queue : FIFO of ScanTask
    current_task,   \* self.current_task (NoneTask models None)
    is_scanning,    \* self.is_scanning
    wpc,            \* position of each worker thread in _process_queue/_run_scan
    wtask,          \* each worker thread's local variable `task`
    wraised,        \* per worker: an exception was raised while handling `task`
    libExists,      \* ids of the Library rows that exist
    libScanning,    \* persisted Library.is_scanning, per library id
    apc,            \* position of the API (event loop) thread
    acall,          \* locals of the add_task / get_status call in progress
    aret,           \* result of the last finished add_task / get_status call
    nextId,         \* ghost: number of ScanTask objects created so far
    log             \* ghost: sequence of <<"start"|"end", task id>> events

scanVars == <<initialized, workerStarted, queue, current_task, is_scanning, wpc,
              wtask, wraised, libExists, libScanning, apc, acall, aret, nextId,
              log>>

\* ------------------------------------------------------------------------
\* Thumbnail pipeline state (thumbnailer.py)
\* ------------------------------------------------------------------------
VARIABLES
    force,          \* the `force` argument of the run
    mode,           \* "seq": process_missing_thumbnails, "par": ..._parallel
    library_id,     \* ThumbnailService.library_id (NoneLib models None)
    requested_workers, \* setting system.parallel_image_workers
    cpu_count,      \* multiprocessing.cpu_count()
    db,             \* persisted Comic rows: thumbnail_path and the colour fields
    rows,           \* ids of the Comic rows that exist
    opc,            \* position of the thread that runs the service method
    comics,         \* the list _get_target_comics returned
    loaded,         \* attribute values the session loaded with that list
    expired,        \* the session's objects are expired (after a commit)
    idx,            \* sequential mode: number of list items handled so far
    stats,          \* the stats dict of the run
    tasks,          \* parallel mode: the (comic_id, file_path) task list
    pending,        \* parallel mode: tasks no pool worker has run yet
    imap,           \* parallel mode: payloads imap_unordered has ready, in completion order
    result_queue,   \* parallel mode: multiprocessing.Queue to the writer
    stats_queue,    \* parallel mode: multiprocessing.Queue from the writer
    workers,        \* parallel mode: size of the worker pool
    tpc,            \* position of the writer process
    batch,          \* writer: the list `batch`
    wprocessed,     \* writer: local `processed`
    werrors,        \* writer: local `errors`
    wskipped,       \* writer: local `skipped`
    outcome,        \* ghost: per comic, what process_cover did in this run
    writersStarted, \* ghost: number of writer processes started
    writerLog,      \* ghost: the per-item messages _apply_batch has put, in order
    externalUpdates \* ghost: number of concurrent updates so far

cfgVars == <<force, mode, library_id, requested_workers, cpu_count>>
orchVars == <<opc, comics, loaded, expired, idx, stats, tasks, workers>>
poolVars == <<pending, imap>>
writerVars == <<tpc, batch, wprocessed, werrors, wskipped>>
ghostVars == <<outcome, writersStarted, writerLog, externalUpdates>>
thumbVars == <<cfgVars, db, rows, orchVars, poolVars, result_queue, stats_queue,
               writerVars, ghostVars>>

\* ------------------------------------------------------------------------
\* Archive and page serving state (archive.py, images.py, api/reader.py)
\* ------------------------------------------------------------------------
VARIABLES
    files,          \* ComicArchive.get_file_list(): the archive's entry names
    gpc,            \* position in ComicArchive.get_pages
    pages,          \* get_pages: the local list `pages`
    ppc,            \* position in get_comic_page / get_page_image
    req,            \* the request: page_index, sharpen, grayscale, webp
    handle,         \* the ComicArchive handle of the call: "none", "open", "closed"
    plist,          \* get_page_image: the local list `pages`
    image_bytes,    \* get_page_image: the bytes read from the archive
    mime_type,      \* get_page_image: the mime type detected from the extension
    needs_transcode, \* get_page_image: the local flag
    img,            \* the Pillow image being processed on the slow path
    ret,            \* what get_page_image returned: (bytes, success, mime)
    page_count,     \* what get_page_count returned
    resp,           \* the endpoint's HTTP response
    fault           \* ghost: the step of the request that failed, "none" if none

\* ------------------------------------------------------------------------
\* Reader initialisation state (api/reader.py, get_comic_reader_init)
\* ------------------------------------------------------------------------
VARIABLES
    age_rating,     \* Comic.age_rating, per comic id
    current_user,   \* the requesting user's age limit and library access
    context_items,  \* the comic ids of the context list's items, in list order
    nreq,           \* the request: comic_id, context_type, context_id
    npc,            \* position in get_comic_reader_init
    ids,            \* get_comic_reader_init: the local list `ids`
    nresp           \* the response: status, prev_comic_id, next_comic_id

navVars == <<age_rating, current_user, context_items, nreq, npc, ids, nresp>>

archVars == <<files, gpc, pages>>
pageVars == <<ppc, req, handle, plist, image_bytes, mime_type, needs_transcode, img,
              ret, page_count, resp, fault>>
readerVars == <<archVars, pageVars, navVars>>

vars == <<scanVars, thumbVars, readerVars>>

LibIds == 1..NLibs
\* worker thread slots: __init__ is meant to start exactly one thread; a second
\* slot exists so that a second start would be observable
WorkerSlots == 1..2

\* the `force` values add_task is called with: the scheduler only stores the
\* flag and hands it to scanner.scan, whose outcome is chosen freely in
\* RunScanScan, so the endpoint's default (False) stands for both values
ForceInputs == {FALSE}

\* ScanTask(library_id, force); `id` is a ghost creation number
ScanTask(l, f, n) == [library_id |-> l, force |-> f, id |-> n]
\* Python's None for an Optional[ScanTask]
NoneTask == [library_id |-> 0, force |-> FALSE, id |-> 0]

\* an Optional[int]: 0 models None
NoneLib == 0

NoCall == [op |-> "none", library_id |-> 0, force |-> FALSE, id |-> 0,
           activeAtCall |-> FALSE, st_is_scanning |-> FALSE, cur |-> NoneTask]

NoRet == [op |-> "none", status |-> "none", library_id |-> 0, id |-> 0,
          position |-> 0, index |-> 0, activeAtCall |-> FALSE,
          is_scanning |-> FALSE, current_library_id |-> NoneLib, queue_size |-> 0]

\* ------------------------------------------------------------------------
\* ScanManager.__new__ / __init__  (scan_manager.py:22-41)
\* ------------------------------------------------------------------------
\* first free worker thread slot
FreeSlot == CHOOSE w \in WorkerSlots : wpc[w] = "none" /\ \A v \in WorkerSlots : v < w => wpc[v] # "none"

\* a mutation of __init__ without the `if self._initialized: return` guard:
\* every construction starts one more worker thread
ScanManagerInitNoGuard ==
    /\ \E w \in WorkerSlots : wpc[w] = "none"
    /\ wpc' = [wpc EXCEPT ![FreeSlot] = "get"]
    /\ workerStarted' = workerStarted + 1
    /\ initialized' = TRUE
    /\ UNCHANGED <<thumbVars, readerVars, queue, current_task, is_scanning, wtask, wraised, libExists,
                   libScanning, apc, acall, aret, nextId, log>>

\* a call ScanManager(): __new__ returns the one instance, __init__ returns at once
\* when it is initialized and otherwise starts the worker thread
ScanManagerInit ==
    IF initialized
    THEN UNCHANGED vars
    ELSE /\ wpc' = [wpc EXCEPT ![FreeSlot] = "get"]
         /\ workerStarted' = workerStarted + 1
         /\ initialized' = TRUE
         /\ queue' = <<>>
         /\ current_task' = NoneTask
         /\ is_scanning' = FALSE
         /\ UNCHANGED <<thumbVars, readerVars, wtask, wraised, libExists, libScanning, apc, acall, aret,
                        nextId, log>>

\* ------------------------------------------------------------------------
\* ScanManager.add_task  (scan_manager.py:43-58), run on the API thread
\* ------------------------------------------------------------------------
\* the scheduler is Active on library l: a worker has taken a request for l from
\* the queue and has not finished handling it
ActiveOn(l) ==
    \E w \in WorkerSlots : wpc[w] \notin {"none", "get", "task_done"} /\ wtask[w].library_id = l

\* index of the request with ghost id n in the queue, 0 when it is not pending
IndexOf(q, n) == IF \E i \in 1..Len(q) : q[i].id = n
                 THEN CHOOSE i \in 1..Len(q) : q[i].id = n
                 ELSE 0

\* line 47, left operand: `self.current_task` is read and tested for truth
AddTaskCheck(l, f) ==
    /\ apc = "idle"
    /\ initialized
    /\ nextId < MaxTasks
    /\ acall' = [NoCall EXCEPT !.op = "add", !.library_id = l, !.force = f,
                               !.activeAtCall = ActiveOn(l)]
    /\ apc' = IF current_task # NoneTask THEN "add_cmp" ELSE "add_put"
    /\ UNCHANGED <<thumbVars, readerVars, initialized, workerStarted, queue, current_task, is_scanning, wpc,
                   wtask, wraised, libExists, libScanning, aret, nextId, log>>

\* line 47, right operand: `self.current_task.library_id == library_id` reads
\* self.current_task again; it raises AttributeError when the worker has set it
\* to None in between. Line 48 returns "ignored" on a match.
AddTaskCompare ==
    /\ apc = "add_cmp"
    /\ IF current_task = NoneTask
       THEN /\ aret' = [NoRet EXCEPT !.op = "add", !.status = "raised",
                                    !.library_id = acall.library_id,
                                    !.activeAtCall = acall.activeAtCall]
            /\ apc' = "idle"
            /\ acall' = NoCall
       ELSE IF current_task.library_id = acall.library_id
       THEN /\ aret' = [NoRet EXCEPT !.op = "add", !.status = "ignored",
                                    !.library_id = acall.library_id,
                                    !.activeAtCall = acall.activeAtCall]
            /\ apc' = "idle"
            /\ acall' = NoCall
       ELSE /\ apc' = "add_put"
            /\ UNCHANGED <<aret, acall>>
    /\ UNCHANGED <<thumbVars, readerVars, initialized, workerStarted, queue, current_task, is_scanning, wpc,
                   wtask, wraised, libExists, libScanning, nextId, log>>

\* lines 50-51: task = ScanTask(...); self.queue.put(task)
AddTaskPut ==
    /\ apc = "add_put"
    /\ queue' = Append(queue, ScanTask(acall.library_id, acall.force, nextId + 1))
    /\ nextId' = nextId + 1
    /\ acall' = [acall EXCEPT !.id = nextId + 1]
    /\ apc' = "add_qsize"
    /\ UNCHANGED <<thumbVars, readerVars, initialized, workerStarted, current_task, is_scanning, wpc, wtask,
                   wraised, libExists, libScanning, aret, log>>

\* lines 53-58: position = self.queue.qsize(); return {"status": "queued", ...}
AddTaskReturn ==
    /\ apc = "add_qsize"
    /\ aret' = [NoRet EXCEPT !.op = "add", !.status = "queued",
                             !.library_id = acall.library_id, !.id = acall.id,
                             !.position = Len(queue),
                             !.index = IndexOf(queue, acall.id),
                             !.activeAtCall = acall.activeAtCall]
    /\ apc' = "idle"
    /\ acall' = NoCall
    /\ UNCHANGED <<thumbVars, readerVars, initialized, workerStarted, queue, current_task, is_scanning, wpc,
                   wtask, wraised, libExists, libScanning, nextId, log>>

\* ------------------------------------------------------------------------
\* ScanManager.get_status  (scan_manager.py:60-66), run on the API thread
\* ------------------------------------------------------------------------
\* line 63: self.is_scanning is read
GetStatusScanning ==
    /\ apc = "idle"
    /\ initialized
    /\ acall' = [NoCall EXCEPT !.op = "status", !.st_is_scanning = is_scanning]
    /\ apc' = "gs_cond"
    /\ UNCHANGED <<thumbVars, readerVars, initialized, workerStarted, queue, current_task, is_scanning, wpc,
                   wtask, wraised, libExists, libScanning, aret, nextId, log>>

\* line 64, condition of the conditional expression: `if self.current_task`
GetStatusCond ==
    /\ apc = "gs_cond"
    /\ acall' = [acall EXCEPT !.cur = current_task]
    /\ apc' = "gs_lib"
    /\ UNCHANGED <<thumbVars, readerVars, initialized, workerStarted, queue, current_task, is_scanning, wpc,
                   wtask, wraised, libExists, libScanning, aret, nextId, log>>

\* line 64, value: None when the condition was false, else
\* `self.current_task.library_id`, which reads self.current_task again and raises
\* AttributeError when the worker has set it to None in between;
\* line 65: self.queue.qsize()
GetStatusReturn ==
    /\ apc = "gs_lib"
    /\ aret' = IF acall.cur # NoneTask /\ current_task = NoneTask
               THEN [NoRet EXCEPT !.op = "status", !.status = "raised"]
               ELSE [NoRet EXCEPT !.op = "status", !.status = "ok",
                                  !.is_scanning = acall.st_is_scanning,
                                  !.current_library_id =
                                      IF acall.cur = NoneTask THEN NoneLib
                                      ELSE current_task.library_id,
                                  !.queue_size = Len(queue)]
    /\ apc' = "idle"
    /\ acall' = NoCall
    /\ UNCHANGED <<thumbVars, readerVars, initialized, workerStarted, queue, current_task, is_scanning, wpc,
                   wtask, wraised, libExists, libScanning, nextId, log>>

\* ------------------------------------------------------------------------
\* delete_library  (api/libraries.py:38-47): the Library row is removed
\* ------------------------------------------------------------------------
DeleteLibrary(l) ==
    /\ apc = "idle"
    /\ l \in libExists
    /\ libExists' = libExists \ {l}
    /\ libScanning' = [libScanning EXCEPT ![l] = FALSE]
    /\ UNCHANGED <<thumbVars, readerVars, initialized, workerStarted, queue, current_task, is_scanning, wpc,
                   wtask, wraised, apc, acall, aret, nextId, log>>

\* ------------------------------------------------------------------------
\* ScanManager._process_queue  (scan_manager.py:68-87), one worker thread w
\* ------------------------------------------------------------------------
\* a mutation of the queue discipline: the newest request is handed out first
QueueGetLifo(q) == q[Len(q)]

\* the request queue.Queue.get hands out: the head of the FIFO
QueueGet(q) == Head(q)

\* line 73: task = self.queue.get(timeout=1); on timeout the loop continues
WorkerGet(w) ==
    /\ wpc[w] = "get"
    /\ queue # <<>>
    /\ wtask' = [wtask EXCEPT ![w] = QueueGet(queue)]
    /\ queue' = SelectSeq(queue, LAMBDA t : t.id # QueueGet(queue).id)
    /\ wpc' = [wpc EXCEPT ![w] = "set_scanning"]
    /\ wraised' = [wraised EXCEPT ![w] = FALSE]
    /\ UNCHANGED <<thumbVars, readerVars, initialized, workerStarted, current_task, is_scanning, libExists,
                   libScanning, apc, acall, aret, nextId, log>>

\* line 77: self.is_scanning = True
WorkerSetScanning(w) ==
    /\ wpc[w] = "set_scanning"
    /\ is_scanning' = TRUE
    /\ wpc' = [wpc EXCEPT ![w] = "set_current"]
    /\ UNCHANGED <<thumbVars, readerVars, initialized, workerStarted, queue, current_task, wtask, wraised,
                   libExists, libScanning, apc, acall, aret, nextId, log>>

\* line 78: self.current_task = task
WorkerSetCurrent(w) ==
    /\ wpc[w] = "set_current"
    /\ current_task' = wtask[w]
    /\ wpc' = [wpc EXCEPT ![w] = "run_scan"]
    /\ UNCHANGED <<thumbVars, readerVars, initialized, workerStarted, queue, is_scanning, wtask, wraised,
                   libExists, libScanning, apc, acall, aret, nextId, log>>

\* ------------------------------------------------------------------------
\* ScanManager._run_scan  (scan_manager.py:89-129), called at line 81
\* ------------------------------------------------------------------------
\* line 93: db = SessionLocal(); it is outside the try, so an exception leaves
\* _run_scan and is caught at lines 82-83
RunScanOpen(w) ==
    /\ wpc[w] = "run_scan"
    /\ \E ok \in BOOLEAN :
          IF ok
          THEN /\ wpc' = [wpc EXCEPT ![w] = "query"]
               /\ log' = Append(log, <<"start", wtask[w].id>>)
               /\ UNCHANGED wraised
          ELSE /\ wpc' = [wpc EXCEPT ![w] = "fin_scanning"]
               /\ log' = log \o << <<"start", wtask[w].id>>, <<"end", wtask[w].id>> >>
               /\ wraised' = [wraised EXCEPT ![w] = TRUE]
    /\ UNCHANGED <<thumbVars, readerVars, initialized, workerStarted, queue, current_task, is_scanning, wtask,
                   libExists, libScanning, apc, acall, aret, nextId>>

\* lines 95-98: the library is looked up; when it is not found _run_scan returns
\* (through the finally clause)
RunScanQuery(w) ==
    /\ wpc[w] = "query"
    /\ wpc' = [wpc EXCEPT ![w] = IF wtask[w].library_id \in libExists THEN "mark" ELSE "cleanup"]
    /\ UNCHANGED <<thumbVars, readerVars, initialized, workerStarted, queue, current_task, is_scanning, wtask,
                   wraised, libExists, libScanning, apc, acall, aret, nextId, log>>

\* lines 100-101: library.is_scanning = True; db.commit(). The commit raises when
\* the row has been deleted meanwhile (lines 114-116 roll back)
RunScanMark(w) ==
    /\ wpc[w] = "mark"
    /\ IF wtask[w].library_id \in libExists
       THEN /\ libScanning' = [libScanning EXCEPT ![wtask[w].library_id] = TRUE]
            /\ wpc' = [wpc EXCEPT ![w] = "scan"]
            /\ UNCHANGED wraised
       ELSE /\ wpc' = [wpc EXCEPT ![w] = "cleanup"]
            /\ wraised' = [wraised EXCEPT ![w] = TRUE]
            /\ UNCHANGED libScanning
    /\ UNCHANGED <<thumbVars, readerVars, initialized, workerStarted, queue, current_task, is_scanning, wtask,
                   libExists, apc, acall, aret, nextId, log>>

\* lines 103-116: scanner.scan(force=task.force) returns, or raises and the
\* except clause rolls the session back
RunScanScan(w) ==
    /\ wpc[w] = "scan"
    /\ \E raises \in BOOLEAN : wraised' = [wraised EXCEPT ![w] = raises]
    /\ wpc' = [wpc EXCEPT ![w] = "cleanup"]
    /\ UNCHANGED <<thumbVars, readerVars, initialized, workerStarted, queue, current_task, is_scanning, wtask,
                   libExists, libScanning, apc, acall, aret, nextId, log>>

\* the persisted flags after the finally clause's reset (lines 122-125) of library l
CleanupReset(flags, l) == [flags EXCEPT ![l] = FALSE]

\* lines 117-129, the finally clause: the library is fetched again and, when it
\* exists, its is_scanning is set to False and committed; an exception of the
\* fetch or the commit is caught and printed (lines 126-127), the flag then keeps
\* its value; db.close()
RunScanCleanup(w) ==
    /\ wpc[w] = "cleanup"
    /\ \E ok \in BOOLEAN :
          libScanning' = IF ok /\ wtask[w].library_id \in libExists
                         THEN CleanupReset(libScanning, wtask[w].library_id)
                         ELSE libScanning
    /\ log' = Append(log, <<"end", wtask[w].id>>)
    /\ wpc' = [wpc EXCEPT ![w] = "fin_scanning"]
    /\ UNCHANGED <<thumbVars, readerVars, initialized, workerStarted, queue, current_task, is_scanning, wtask,
                   wraised, libExists, apc, acall, aret, nextId>>

\* line 85 (finally): self.is_scanning = False
WorkerFinScanning(w) ==
    /\ wpc[w] = "fin_scanning"
    /\ is_scanning' = FALSE
    /\ wpc' = [wpc EXCEPT ![w] = "fin_current"]
    /\ UNCHANGED <<thumbVars, readerVars, initialized, workerStarted, queue, current_task, wtask, wraised,
                   libExists, libScanning, apc, acall, aret, nextId, log>>

\* line 86 (finally): self.current_task = None
WorkerFinCurrent(w) ==
    /\ wpc[w] = "fin_current"
    /\ current_task' = NoneTask
    /\ wpc' = [wpc EXCEPT ![w] = "task_done"]
    /\ acall' = IF acall.op = "add" /\ acall.library_id = wtask[w].library_id
                THEN [acall EXCEPT !.activeAtCall = FALSE]
                ELSE acall
    /\ UNCHANGED <<thumbVars, readerVars, initialized, workerStarted, queue, is_scanning, wtask, wraised,
                   libExists, libScanning, apc, aret, nextId, log>>

\* a mutation of lines 80-87: without the except clause an exception of the scan
\* job leaves the loop after the finally clause, and the worker thread ends
WorkerTaskDoneUncaught(w) ==
    /\ wpc[w] = "task_done"
    /\ wpc' = [wpc EXCEPT ![w] = IF wraised[w] THEN "none" ELSE "get"]
    /\ wtask' = [wtask EXCEPT ![w] = NoneTask]
    /\ wraised' = [wraised EXCEPT ![w] = FALSE]
    /\ UNCHANGED <<thumbVars, readerVars, initialized, workerStarted, queue, current_task, is_scanning,
                   libExists, libScanning, apc, acall, aret, nextId, log>>

\* line 87 (finally): self.queue.task_done(); the loop goes back to line 70
WorkerTaskDone(w) ==
    /\ wpc[w] = "task_done"
    /\ wpc' = [wpc EXCEPT ![w] = "get"]
    /\ wtask' = [wtask EXCEPT ![w] = NoneTask]
    /\ wraised' = [wraised EXCEPT ![w] = FALSE]
    /\ UNCHANGED <<thumbVars, readerVars, initialized, workerStarted, queue, current_task, is_scanning,
                   libExists, libScanning, apc, acall, aret, nextId, log>>

\* ------------------------------------------------------------------------
\* Thumbnail pipeline: values
\* ------------------------------------------------------------------------
Comics == 1..NComics
\* the library a comic belongs to (Comic -> Volume -> Series.library_id)
ComicLibrary(c) == IF c < NComics THEN 1 ELSE 2

\* SQL NULL / Python None of a column value
Null == "NULL"
\* a Comic row's fields the pipeline writes. thumbnail_path is Null, "prev" (a
\* value an earlier run stored) or "cover" (str(target_path) of this comic); a
\* colour field is Null, "prev" or "new" (taken from this run's palette)
NullRow == [thumbnail_path |-> Null, color_primary |-> Null,
            color_secondary |-> Null, color_palette |-> Null]
\* the rows a run may find: with or without a stored thumbnail, with or without
\* stored colours
InitialRows == {[thumbnail_path |-> t, color_primary |-> k,
                 color_secondary |-> k, color_palette |-> k] :
                    t \in {Null, "prev"}, k \in {Null, "prev"}}

\* the payload of _thumbnail_worker; comic_id 0 models the None sentinel
Payload(c, err, path, pal) ==
    [comic_id |-> c, error |-> err, thumbnail_path |-> path, palette |-> pal]
Sentinel == Payload(0, FALSE, Null, Null)

\* a message on stats_queue: a per-item status or the summary
ItemMsg(c, st) == [summary |-> FALSE, comic_id |-> c, status |-> st,
                   processed |-> 0, errors |-> 0, skipped |-> 0]
SummaryMsg(p, e, k) == [summary |-> TRUE, comic_id |-> 0, status |-> "summary",
                        processed |-> p, errors |-> e, skipped |-> k]

ZeroStats == [processed |-> 0, errors |-> 0, skipped |-> 0]

\* the thumbnail pipeline before any run is started, with one fixed configuration
ThumbQuiescent ==
    /\ force = FALSE
    /\ mode = "seq"
    /\ library_id = NoneLib
    /\ requested_workers = 0
    /\ cpu_count = 1
    /\ db = [c \in Comics |-> NullRow]
    /\ rows = Comics
    /\ opc = "idle"
    /\ comics = <<>>
    /\ loaded = [c \in Comics |-> NullRow]
    /\ expired = FALSE
    /\ idx = 0
    /\ stats = ZeroStats
    /\ tasks = <<>>
    /\ pending = {}
    /\ imap = <<>>
    /\ result_queue = <<>>
    /\ stats_queue = <<>>
    /\ workers = 0
    /\ tpc = "none"
    /\ batch = <<>>
    /\ wprocessed = 0
    /\ werrors = 0
    /\ wskipped = 0
    /\ outcome = [c \in Comics |-> "none"]
    /\ writersStarted = 0
    /\ writerLog = <<>>
    /\ externalUpdates = 0

\* ------------------------------------------------------------------------
\* Values of the archive and page serving state
\* ------------------------------------------------------------------------
\* a str is a sequence of one-character strings, '' is <<>>
\* bytes objects: None, the raw content of the archive entry `name` (`empty`
\* when the entry has length 0) with the size of the picture stored in it, or the
\* output of img.save in `format` with the saved image's size and the filters it
\* went through
NoneBytes == [kind |-> "none", name |-> <<>>, empty |-> FALSE, format |-> "",
              width |-> 0, height |-> 0, gray |-> FALSE, sharp |-> FALSE]
RawBytes(n, e, w, h) ==
    [NoneBytes EXCEPT !.kind = "raw", !.name = n, !.empty = e, !.width = w, !.height = h]
EncodedBytes(fmt, im) ==
    [kind |-> "encoded", name |-> im.name, empty |-> FALSE, format |-> fmt,
     width |-> im.width, height |-> im.height, gray |-> im.gray, sharp |-> im.sharp]

\* `not image_bytes`: None or b''
Falsy(b) == b.kind = "none" \/ b.empty

\* a PIL.Image: the entry it was opened from, its size and mode, the filters
\* applied to it; NoImg before Image.open
NoImg == [name |-> <<>>, width |-> 0, height |-> 0, mode |-> "", gray |-> FALSE,
          sharp |-> FALSE]
\* the query parameters of get_comic_page before a request is made
NoReq == [page_index |-> 0, sharpen |-> FALSE, grayscale |-> FALSE, webp |-> FALSE]
\* images.py lines 43, 51, 122: return None, False, "application/octet-stream";
\* also the value of `ret` before get_page_image has returned
NoneResult == [bytes |-> NoneBytes, success |-> FALSE, mime |-> "application/octet-stream"]
\* no response has been sent
NoResp == [status |-> 0, cache |-> "", media_type |-> "", extension |-> "",
           content |-> NoneBytes]

\* get_pages is not running
ArchiveQuiescent ==
    /\ gpc = "idle"
    /\ pages = <<>>

\* no page request is in progress
PageQuiescent ==
    /\ ppc = "idle"
    /\ req = NoReq
    /\ handle = "none"
    /\ plist = <<>>
    /\ image_bytes = NoneBytes
    /\ mime_type = ""
    /\ needs_transcode = FALSE
    /\ img = NoImg
    /\ ret = NoneResult
    /\ page_count = 0
    /\ resp = NoResp
    /\ fault = "none"

\* no read-init response has been sent; 0 models None for the two neighbour ids
NoNavResp == [status |-> 0, prev_comic_id |-> 0, next_comic_id |-> 0]

\* no reader is being initialised
NavQuiescent ==
    /\ age_rating = [c \in Comics |-> Null]
    /\ current_user = [max_age_rating |-> Null, allow_unknown_age_ratings |-> TRUE,
                       library_ok |-> TRUE]
    /\ context_items = <<>>
    /\ nreq = [comic_id |-> 0, context_type |-> "volume", context_id |-> 0]
    /\ npc = "idle"
    /\ ids = <<>>
    /\ nresp = NoNavResp

\* no archive is being read, no page is being served, no reader initialised
ReaderQuiescent ==
    /\ files = <<>>
    /\ ArchiveQuiescent
    /\ PageQuiescent
    /\ NavQuiescent

\* ------------------------------------------------------------------------
\* The scan scheduler's specification
\* ------------------------------------------------------------------------
\* the state after `scan_manager = ScanManager()` (scan_manager.py:133)
InitScanManager ==
    /\ initialized = TRUE
    /\ workerStarted = 1
    /\ queue = <<>>
    /\ current_task = NoneTask
    /\ is_scanning = FALSE
    /\ wpc = [w \in WorkerSlots |-> IF w = 1 THEN "get" ELSE "none"]
    /\ wtask = [w \in WorkerSlots |-> NoneTask]
    /\ wraised = [w \in WorkerSlots |-> FALSE]
    /\ libExists = LibIds
    /\ libScanning = [l \in LibIds |-> FALSE]
    /\ apc = "idle"
    /\ acall = NoCall
    /\ aret = NoRet
    /\ nextId = 0
    /\ log = <<>>

InitScan == InitScanManager /\ ThumbQuiescent /\ ReaderQuiescent

NextScan ==
    \/ ScanManagerInit
    \/ \E l \in LibIds, f \in ForceInputs : AddTaskCheck(l, f)
    \/ AddTaskCompare
    \/ AddTaskPut
    \/ AddTaskReturn
    \/ GetStatusScanning
    \/ GetStatusCond
    \/ GetStatusReturn
    \/ \E l \in LibIds : DeleteLibrary(l)
    \/ \E w \in WorkerSlots :
          \/ WorkerGet(w)
          \/ WorkerSetScanning(w)
          \/ WorkerSetCurrent(w)
          \/ RunScanOpen(w)
          \/ RunScanQuery(w)
          \/ RunScanMark(w)
          \/ RunScanScan(w)
          \/ RunScanCleanup(w)
          \/ WorkerFinScanning(w)
          \/ WorkerFinCurrent(w)
          \/ WorkerTaskDone(w)

SpecScan == InitScan /\ [][NextScan]_vars

\* the worker thread is scheduled: whenever it can take a step (a request is
\* pending for queue.get, or it is handling one) it eventually takes one. The API
\* thread is under no obligation to make calls or to finish them
FairSpecScan ==
    /\ SpecScan
    /\ WF_vars(\E w \in WorkerSlots :
                  \/ WorkerGet(w)
                  \/ WorkerSetScanning(w)
                  \/ WorkerSetCurrent(w)
                  \/ RunScanOpen(w)
                  \/ RunScanQuery(w)
                  \/ RunScanMark(w)
                  \/ RunScanScan(w)
                  \/ RunScanCleanup(w)
                  \/ WorkerFinScanning(w)
                  \/ WorkerFinCurrent(w)
                  \/ WorkerTaskDone(w))

\* ------------------------------------------------------------------------
\* ImageService.process_cover: what one call does. "ok_palette": success with a
\* palette; "ok_nopalette": success, palette None; "fail": success False;
\* "raise": an exception
\* ------------------------------------------------------------------------
ProcessCoverOutcomes == {"ok_palette", "ok_nopalette", "fail", "raise"}
Succeeded(o) == o \in {"ok_palette", "ok_nopalette"}
Failed(o) == o \in {"fail", "raise"}
\* result.get('palette') of a successful call
ResultPalette(o) == IF o = "ok_palette" THEN "new" ELSE Null

\* ------------------------------------------------------------------------
\* ThumbnailService._get_target_comics  (thumbnailer.py:236-258)
\* ------------------------------------------------------------------------
\* a mutation of lines 252-254: only a missing thumbnail selects a comic
TargetComicsThumbnailOnly(dbv, rws, lib, frc) ==
    {c \in rws : /\ ComicLibrary(c) = lib
                 /\ (frc \/ dbv[c].thumbnail_path = Null)}

TargetComics(dbv, rws, lib, frc) ==
    {c \in rws : /\ ComicLibrary(c) = lib
                 /\ (frc \/ dbv[c].thumbnail_path = Null \/ dbv[c].color_primary = Null)}

\* the list query.all() returns, in id order
RECURSIVE ListOf(_)
ListOf(S) == IF S = {} THEN <<>>
             ELSE LET m == CHOOSE x \in S : \A y \in S : x <= y
                  IN <<m>> \o ListOf(S \ {m})

\* lines 158-161 and 281-284: the test that skips a comic; fileExists is
\* Path(comic.thumbnail_path).exists()
ShouldSkip(row, frc, fileExists) ==
    /\ ~frc
    /\ (row.thumbnail_path # Null /\ fileExists)
    /\ row.color_primary # Null

\* ------------------------------------------------------------------------
\* ThumbnailService.process_missing_thumbnails  (thumbnailer.py:143-193)
\* ------------------------------------------------------------------------
\* lines 149-154: the library id guard, the selection, the zeroed stats
SeqStart ==
    /\ opc = "start"
    /\ mode = "seq"
    /\ IF library_id = NoneLib
       THEN /\ opc' = "raised"
            /\ UNCHANGED <<comics, loaded>>
       ELSE /\ opc' = "loop"
            /\ comics' = ListOf(TargetComics(db, rows, library_id, force))
            /\ loaded' = db
    /\ expired' = FALSE
    /\ idx' = 0
    /\ stats' = ZeroStats
    /\ UNCHANGED <<scanVars, readerVars, cfgVars, db, rows, tasks, workers, poolVars, result_queue,
                   stats_queue, writerVars, ghostVars>>

\* lines 172-180: the row after a successful process_cover with outcome o
SeqUpdateRow(row, o) ==
    LET withPath == [row EXCEPT !.thumbnail_path = "cover"]
    IN IF ResultPalette(o) # Null
       THEN [withPath EXCEPT !.color_primary = ResultPalette(o),
                             !.color_secondary = ResultPalette(o),
                             !.color_palette = ResultPalette(o)]
       ELSE withPath

\* a mutation of lines 184-191: a failing item is not counted
SeqCountNoError(st, o) ==
    IF Succeeded(o) THEN [st EXCEPT !.processed = @ + 1] ELSE st

\* lines 184-191: the stats after an item that was not skipped
SeqCount(st, o) ==
    IF Succeeded(o) THEN [st EXCEPT !.processed = @ + 1]
    ELSE [st EXCEPT !.errors = @ + 1]

\* lines 156-191: one iteration of the loop. The attributes read are the loaded
\* ones until the first commit of the run expires the session's objects, and the
\* row's current ones afterwards
SeqItem ==
    /\ opc = "loop"
    /\ idx < Len(comics)
    /\ idx' = idx + 1
    /\ LET c == comics[idx + 1]
           row == IF expired THEN db[c] ELSE loaded[c]
       IN \E fileExists \in BOOLEAN :
            IF ShouldSkip(row, force, fileExists)
            THEN /\ stats' = [stats EXCEPT !.skipped = @ + 1]
                 /\ outcome' = [outcome EXCEPT ![c] = "skip"]
                 /\ UNCHANGED <<db, expired>>
            ELSE \E o \in ProcessCoverOutcomes :
                   /\ outcome' = [outcome EXCEPT ![c] = o]
                   /\ stats' = SeqCount(stats, o)
                   /\ db' = IF Succeeded(o)
                            THEN [db EXCEPT ![c] = SeqUpdateRow(db[c], o)]
                            ELSE db
                   /\ expired' = (expired \/ Succeeded(o))
    /\ UNCHANGED <<scanVars, readerVars, cfgVars, rows, opc, comics, loaded, tasks, workers, poolVars,
                   result_queue, stats_queue, writerVars, writersStarted, writerLog,
                   externalUpdates>>

\* line 193: return stats
SeqReturn ==
    /\ opc = "loop"
    /\ idx = Len(comics)
    /\ opc' = "done"
    /\ UNCHANGED <<scanVars, readerVars, cfgVars, db, rows, comics, loaded, expired, idx, stats, tasks,
                   workers, poolVars, result_queue, stats_queue, writerVars, ghostVars>>

\* ------------------------------------------------------------------------
\* _apply_batch  (thumbnailer.py:15-42)
\* ------------------------------------------------------------------------
\* a mutation of lines 23-25: the error flag of an item is not looked at, so a
\* failed item's absent thumbnail_path (None) is stored
ApplyItemIgnoringError(dbv, rws, item) ==
    IF item.comic_id \notin rws THEN dbv
    ELSE LET c == item.comic_id
             withPath == [dbv[c] EXCEPT !.thumbnail_path = item.thumbnail_path]
         IN [dbv EXCEPT ![c] =
                IF item.palette # Null
                THEN [withPath EXCEPT !.color_primary = item.palette,
                                      !.color_secondary = item.palette,
                                      !.color_palette = item.palette]
                ELSE withPath]

\* a mutation of lines 35-38: the colour fields are assigned from the palette
\* also when the item carries none, which clears the stored colours
ApplyItemClearingColours(dbv, rws, item) ==
    IF item.error THEN dbv
    ELSE IF item.comic_id \notin rws THEN dbv
    ELSE LET c == item.comic_id
             withPath == [dbv[c] EXCEPT !.thumbnail_path = item.thumbnail_path]
         IN [dbv EXCEPT ![c] =
                [withPath EXCEPT !.color_primary = item.palette,
                                 !.color_secondary = item.palette,
                                 !.color_palette = item.palette]]

\* lines 21-38: the rows after one item
ApplyItem(dbv, rws, item) ==
    IF item.error THEN dbv
    ELSE IF item.comic_id \notin rws THEN dbv
    ELSE LET c == item.comic_id
             withPath == [dbv[c] EXCEPT !.thumbnail_path = item.thumbnail_path]
         IN [dbv EXCEPT ![c] =
                IF item.palette # Null
                THEN [withPath EXCEPT !.color_primary = item.palette,
                                      !.color_secondary = item.palette,
                                      !.color_palette = item.palette]
                ELSE withPath]

\* lines 24, 29, 40: the per-item message put on stats_queue
ItemStatus(rws, item) ==
    IF item.error THEN "error"
    ELSE IF item.comic_id \notin rws THEN "missing"
    ELSE "processed"

\* lines 19-42: the rows after the whole batch is applied and committed
RECURSIVE ApplyBatchRows(_, _, _)
ApplyBatchRows(dbv, rws, b) ==
    IF b = <<>> THEN dbv
    ELSE ApplyBatchRows(ApplyItem(dbv, rws, Head(b)), rws, Tail(b))

\* lines 19-40: the messages the batch puts on stats_queue, in order
ApplyBatchMsgs(rws, b) == [i \in 1..Len(b) |-> ItemMsg(b[i].comic_id, ItemStatus(rws, b[i]))]

\* ------------------------------------------------------------------------
\* _thumbnail_worker  (thumbnailer.py:44-80), run by a pool process
\* ------------------------------------------------------------------------
\* lines 56-80: the payload for process_cover outcome o
WorkerPayload(c, o) ==
    IF Succeeded(o) THEN Payload(c, FALSE, "cover", ResultPalette(o))
    ELSE Payload(c, TRUE, Null, Null)

\* a mutation of _thumbnail_worker: the worker stores its own result in the
\* database instead of leaving that to the writer
ThumbnailWorkerWritingRows(c) ==
    /\ opc = "pool"
    /\ c \in pending
    /\ \E o \in ProcessCoverOutcomes :
          /\ imap' = Append(imap, WorkerPayload(c, o))
          /\ outcome' = [outcome EXCEPT ![c] = o]
          /\ db' = ApplyItem(db, rows, WorkerPayload(c, o))
    /\ pending' = pending \ {c}
    /\ UNCHANGED <<scanVars, readerVars, cfgVars, rows, orchVars, result_queue, stats_queue,
                   writerVars, writersStarted, writerLog, externalUpdates>>

\* one task run by a pool process; its payload becomes available to
\* imap_unordered in completion order
ThumbnailWorker(c) ==
    /\ opc = "pool"
    /\ c \in pending
    /\ \E o \in ProcessCoverOutcomes :
          /\ imap' = Append(imap, WorkerPayload(c, o))
          /\ outcome' = [outcome EXCEPT ![c] = o]
    /\ pending' = pending \ {c}
    /\ UNCHANGED <<scanVars, readerVars, cfgVars, db, rows, orchVars, result_queue, stats_queue,
                   writerVars, writersStarted, writerLog, externalUpdates>>

\* ------------------------------------------------------------------------
\* ThumbnailService.process_missing_thumbnails_parallel  (thumbnailer.py:260-334)
\* ------------------------------------------------------------------------
\* a mutation of lines 306-310: the requested size is not capped at the core count
PoolSizeUncapped(requested, cpus) ==
    LET cores == IF cpus = 0 THEN 1 ELSE cpus
    IN IF requested <= 0 THEN cores ELSE requested

\* lines 306-310: the size of the worker pool
PoolSize(requested, cpus) ==
    LET cores == IF cpus = 0 THEN 1 ELSE cpus
    IN IF requested <= 0 THEN cores
       ELSE IF requested < cores THEN requested ELSE cores

\* lines 269-291: the guard, the selection and the pre-filter of skipped comics;
\* the method returns at once when no comic is selected or no task is left
ParStart ==
    /\ opc = "start"
    /\ mode = "par"
    /\ expired' = FALSE
    /\ idx' = 0
    /\ IF library_id = NoneLib
       THEN /\ opc' = "raised"
            /\ stats' = ZeroStats
            /\ UNCHANGED <<comics, loaded, tasks, outcome>>
       ELSE LET target == TargetComics(db, rows, library_id, force)
            IN \E present \in SUBSET target :
                 LET skipped == {c \in target : ShouldSkip(db[c], force, c \in present)}
                 IN /\ comics' = ListOf(target)
                    /\ loaded' = db
                    /\ stats' = [ZeroStats EXCEPT !.skipped = Cardinality(skipped)]
                    /\ tasks' = ListOf(target \ skipped)
                    /\ outcome' = [c \in Comics |-> IF c \in skipped THEN "skip" ELSE outcome[c]]
                    /\ opc' = IF target \ skipped = {} THEN "done" ELSE "spawn"
    /\ UNCHANGED <<scanVars, readerVars, cfgVars, db, rows, workers, poolVars, result_queue,
                   stats_queue, writerVars, writersStarted, writerLog, externalUpdates>>

\* lines 293-314: the two queues, the writer process, the pool
ParSpawn ==
    /\ opc = "spawn"
    /\ result_queue' = <<>>
    /\ stats_queue' = <<>>
    /\ tpc' = "open"
    /\ writersStarted' = writersStarted + 1
    /\ workers' = PoolSize(requested_workers, cpu_count)
    /\ pending' = {tasks[i] : i \in 1..Len(tasks)}
    /\ imap' = <<>>
    /\ opc' = "pool"
    /\ UNCHANGED <<scanVars, readerVars, cfgVars, db, rows, comics, loaded, expired, idx, stats, tasks,
                   batch, wprocessed, werrors, wskipped, outcome, writerLog,
                   externalUpdates>>

\* lines 315-317: the next payload of imap_unordered is put on result_queue
ParRelay ==
    /\ opc = "pool"
    /\ imap # <<>>
    /\ result_queue' = Append(result_queue, Head(imap))
    /\ imap' = Tail(imap)
    /\ UNCHANGED <<scanVars, readerVars, cfgVars, db, rows, orchVars, pending, stats_queue,
                   writerVars, ghostVars>>

\* a mutation of lines 314-320: the sentinel is put while results are outstanding
ParSentinelEarly ==
    /\ opc = "pool"
    /\ result_queue' = Append(result_queue, Sentinel)
    /\ opc' = "collect"
    /\ UNCHANGED <<scanVars, readerVars, cfgVars, db, rows, comics, loaded, expired, idx, stats, tasks,
                   workers, poolVars, stats_queue, writerVars, ghostVars>>

\* lines 319-320: the pool is exhausted; the None sentinel is put
ParSentinel ==
    /\ opc = "pool"
    /\ pending = {}
    /\ imap = <<>>
    /\ result_queue' = Append(result_queue, Sentinel)
    /\ opc' = "collect"
    /\ UNCHANGED <<scanVars, readerVars, cfgVars, db, rows, comics, loaded, expired, idx, stats, tasks,
                   workers, poolVars, stats_queue, writerVars, ghostVars>>

\* lines 323-330: one stats_queue.get(); the summary is added to stats, any other
\* message is dropped
ParCollect ==
    /\ opc = "collect"
    /\ stats_queue # <<>>
    /\ stats_queue' = Tail(stats_queue)
    /\ LET item == Head(stats_queue)
       IN IF item.summary
          THEN /\ stats' = [processed |-> stats.processed + item.processed,
                            errors |-> stats.errors + item.errors,
                            skipped |-> stats.skipped + item.skipped]
               /\ opc' = "join"
          ELSE UNCHANGED <<stats, opc>>
    /\ UNCHANGED <<scanVars, readerVars, cfgVars, db, rows, comics, loaded, expired, idx, tasks,
                   workers, poolVars, result_queue, writerVars, ghostVars>>

\* lines 332-334: writer_proc.join() returns when the writer process has ended,
\* normally or with an exception; return stats
ParJoin ==
    /\ opc = "join"
    /\ tpc \in {"exit", "failed"}
    /\ opc' = "done"
    /\ UNCHANGED <<scanVars, readerVars, cfgVars, db, rows, comics, loaded, expired, idx, stats, tasks,
                   workers, poolVars, result_queue, stats_queue, writerVars, ghostVars>>

\* ------------------------------------------------------------------------
\* _thumbnail_writer  (thumbnailer.py:83-133), the writer process
\* ------------------------------------------------------------------------
\* number of items of a batch with / without the error flag (lines 114-115, 121-122)
CountErrors(b) == Cardinality({i \in 1..Len(b) : b[i].error})
CountProcessed(b) == Cardinality({i \in 1..Len(b) : ~b[i].error})

\* lines 91-99: the session is opened, the counters are zeroed
WriterOpen ==
    /\ tpc = "open"
    /\ tpc' = "loop"
    /\ batch' = <<>>
    /\ wprocessed' = 0
    /\ werrors' = 0
    /\ wskipped' = 0
    /\ UNCHANGED <<scanVars, readerVars, cfgVars, db, rows, orchVars, poolVars, result_queue,
                   stats_queue, ghostVars>>

\* a mutation of line 116: the batch is not cleared after it was applied
BatchNotCleared(b) == b

\* line 116: batch.clear() after a full batch was applied
BatchAfterApply(b) == <<>>

\* lines 104-116: one queue.get(); the sentinel ends the loop, any other item is
\* appended to the batch, and a full batch is applied, counted and cleared
WriterGet ==
    /\ tpc = "loop"
    /\ result_queue # <<>>
    /\ result_queue' = Tail(result_queue)
    /\ LET item == Head(result_queue)
           full == Append(batch, item)
       IN IF item = Sentinel
          THEN /\ tpc' = "flush"
               /\ UNCHANGED <<db, stats_queue, batch, wprocessed, werrors, writerLog>>
          ELSE IF Len(full) >= BatchSize
          THEN /\ db' = ApplyBatchRows(db, rows, full)
               /\ stats_queue' = stats_queue \o ApplyBatchMsgs(rows, full)
               /\ writerLog' = writerLog \o ApplyBatchMsgs(rows, full)
               /\ wprocessed' = wprocessed + CountProcessed(full)
               /\ werrors' = werrors + CountErrors(full)
               /\ batch' = BatchAfterApply(full)
               /\ UNCHANGED tpc
          ELSE /\ batch' = full
               /\ UNCHANGED <<db, stats_queue, tpc, wprocessed, werrors, writerLog>>
    /\ UNCHANGED <<scanVars, readerVars, cfgVars, rows, orchVars, poolVars, wskipped, outcome,
                   writersStarted, externalUpdates>>

\* a mutation of lines 118-122: the remaining items are applied but not counted
WriterFlushCountNothing(p, n) == p

\* lines 121-122: a counter after the remaining items b are counted in
WriterFlushCount(p, n) == p + n

\* lines 118-122: the items left in the batch are applied and counted
WriterFlush ==
    /\ tpc = "flush"
    /\ tpc' = "finally"
    /\ IF batch # <<>>
       THEN /\ db' = ApplyBatchRows(db, rows, batch)
            /\ stats_queue' = stats_queue \o ApplyBatchMsgs(rows, batch)
            /\ writerLog' = writerLog \o ApplyBatchMsgs(rows, batch)
            /\ wprocessed' = WriterFlushCount(wprocessed, CountProcessed(batch))
            /\ werrors' = WriterFlushCount(werrors, CountErrors(batch))
       ELSE UNCHANGED <<db, stats_queue, writerLog, wprocessed, werrors>>
    /\ UNCHANGED <<scanVars, readerVars, cfgVars, rows, orchVars, poolVars, result_queue, batch,
                   wskipped, outcome, writersStarted, externalUpdates>>

\* lines 124-133 (finally): the summary is put on stats_queue, the session is
\* closed; the process ends, with the exception when one is propagating
WriterFinally ==
    /\ tpc \in {"finally", "raised"}
    /\ stats_queue' = Append(stats_queue, SummaryMsg(wprocessed, werrors, wskipped))
    /\ tpc' = IF tpc = "raised" THEN "failed" ELSE "exit"
    /\ UNCHANGED <<scanVars, readerVars, cfgVars, db, rows, orchVars, poolVars, result_queue, batch,
                   wprocessed, werrors, wskipped, ghostVars>>

\* ------------------------------------------------------------------------
\* ThumbnailService.process_series_thumbnails / _generate_batch
\* (thumbnailer.py:195-234), run by another request while the run is in progress:
\* one comic's cover is regenerated and committed
\* ------------------------------------------------------------------------
SeriesRegenerate(c) ==
    /\ opc \in {"loop", "spawn", "pool", "collect", "join"}
    /\ externalUpdates < MaxExternal
    /\ c \in rows
    /\ externalUpdates' = externalUpdates + 1
    /\ \E o \in {"ok_palette", "ok_nopalette"} :
          db' = [db EXCEPT ![c] = SeqUpdateRow(db[c], o)]
    /\ UNCHANGED <<scanVars, readerVars, cfgVars, rows, orchVars, poolVars, result_queue, stats_queue,
                   writerVars, outcome, writersStarted, writerLog>>

\* ------------------------------------------------------------------------
\* The thumbnail pipeline's specification: one run of either mode
\* ------------------------------------------------------------------------
InitThumb ==
    /\ InitScanManager
    /\ ReaderQuiescent
    /\ force \in BOOLEAN
    /\ mode \in {"seq", "par"}
    /\ library_id \in {NoneLib, 1, 2}
    /\ requested_workers = 0
    /\ cpu_count = 2
    /\ db \in [Comics -> InitialRows]
    /\ rows = Comics
    /\ opc = "start"
    /\ comics = <<>>
    /\ loaded = [c \in Comics |-> NullRow]
    /\ expired = FALSE
    /\ idx = 0
    /\ stats = ZeroStats
    /\ tasks = <<>>
    /\ pending = {}
    /\ imap = <<>>
    /\ result_queue = <<>>
    /\ stats_queue = <<>>
    /\ workers = 0
    /\ tpc = "none"
    /\ batch = <<>>
    /\ wprocessed = 0
    /\ werrors = 0
    /\ wskipped = 0
    /\ outcome = [c \in Comics |-> "none"]
    /\ writersStarted = 0
    /\ writerLog = <<>>
    /\ externalUpdates = 0

NextThumb ==
    \/ SeqStart
    \/ SeqItem
    \/ SeqReturn
    \/ ParStart
    \/ ParSpawn
    \/ \E c \in Comics : ThumbnailWorker(c)
    \/ ParRelay
    \/ ParSentinel
    \/ ParCollect
    \/ ParJoin
    \/ WriterOpen
    \/ WriterGet
    \/ WriterFlush
    \/ WriterFinally
    \/ \E c \in Comics : SeriesRegenerate(c)

SpecThumb == InitThumb /\ [][NextThumb]_vars

\* ------------------------------------------------------------------------
\* The parallel mode with a writer process that may fail and with comic rows
\* that may be deleted during the run
\* ------------------------------------------------------------------------
\* line 94: SessionLocal() raises. The statement is outside the try block, so the
\* writer process ends without putting a summary
WriterOpenRaises ==
    /\ tpc = "open"
    /\ tpc' = "dead"
    /\ UNCHANGED <<scanVars, readerVars, cfgVars, db, rows, orchVars, poolVars, result_queue,
                   stats_queue, batch, wprocessed, werrors, wskipped, ghostVars>>

\* lines 113 and 120: _apply_batch raises, in db.query(Comic).get (line 27) after
\* the messages of the first k items were put, or in db.commit() (line 42) after
\* all of them. Nothing of the batch is committed, lines 114-116 / 121-122 are
\* skipped and the exception takes control to the finally clause
WriterApplyRaises ==
    /\ \/ /\ tpc = "loop"
          /\ result_queue # <<>>
          /\ Head(result_queue) # Sentinel
          /\ Len(batch) + 1 >= BatchSize
          /\ batch' = Append(batch, Head(result_queue))
          /\ result_queue' = Tail(result_queue)
       \/ /\ tpc = "flush"
          /\ batch # <<>>
          /\ UNCHANGED <<batch, result_queue>>
    /\ \E k \in 0..Len(batch') :
          /\ stats_queue' = stats_queue \o SubSeq(ApplyBatchMsgs(rows, batch'), 1, k)
          /\ writerLog' = writerLog \o SubSeq(ApplyBatchMsgs(rows, batch'), 1, k)
    /\ tpc' = "raised"
    /\ UNCHANGED <<scanVars, readerVars, cfgVars, db, rows, orchVars, poolVars, wprocessed,
                   werrors, wskipped, outcome, writersStarted, externalUpdates>>

\* the row of a comic is deleted by another session while the run is in
\* progress; _apply_batch provides for it at lines 27-30
RemoveComic(c) ==
    /\ opc \in {"spawn", "pool", "collect"}
    /\ externalUpdates < MaxExternal
    /\ c \in rows
    /\ rows' = rows \ {c}
    /\ externalUpdates' = externalUpdates + 1
    /\ UNCHANGED <<scanVars, readerVars, cfgVars, db, orchVars, poolVars, result_queue,
                   stats_queue, writerVars, outcome, writersStarted, writerLog>>

\* one parallel run: any force flag and library id, any setting of
\* system.parallel_image_workers against one or two cores, on rows that all lack
\* or all have both a thumbnail and colours
InitPar ==
    /\ InitScanManager
    /\ ReaderQuiescent
    /\ force \in BOOLEAN
    /\ mode = "par"
    /\ library_id \in {NoneLib, 1, 2}
    /\ requested_workers \in -1..3
    /\ cpu_count \in {1, 2}
    /\ \E r \in {NullRow, [thumbnail_path |-> "prev", color_primary |-> "prev",
                          color_secondary |-> "prev", color_palette |-> "prev"]} :
          db = [c \in Comics |-> r]
    /\ rows = Comics
    /\ opc = "start"
    /\ comics = <<>>
    /\ loaded = [c \in Comics |-> NullRow]
    /\ expired = FALSE
    /\ idx = 0
    /\ stats = ZeroStats
    /\ tasks = <<>>
    /\ pending = {}
    /\ imap = <<>>
    /\ result_queue = <<>>
    /\ stats_queue = <<>>
    /\ workers = 0
    /\ tpc = "none"
    /\ batch = <<>>
    /\ wprocessed = 0
    /\ werrors = 0
    /\ wskipped = 0
    /\ outcome = [c \in Comics |-> "none"]
    /\ writersStarted = 0
    /\ writerLog = <<>>
    /\ externalUpdates = 0

NextPar ==
    \/ ParStart
    \/ ParSpawn
    \/ \E c \in Comics : ThumbnailWorker(c)
    \/ ParRelay
    \/ ParSentinel
    \/ ParCollect
    \/ ParJoin
    \/ WriterOpen
    \/ WriterOpenRaises
    \/ WriterGet
    \/ WriterApplyRaises
    \/ WriterFlush
    \/ WriterFinally
    \/ \E c \in Comics : RemoveComic(c)

SpecPar == InitPar /\ [][NextPar]_vars

\* every process that can take a step eventually takes one: the orchestrator,
\* the pool and the writer are separate processes of the operating system
FairSpecPar == SpecPar /\ WF_vars(NextPar)

\* ========================================================================
\* Claims about the scan scheduler (checked under SpecScan)
\* ========================================================================

\* C4: an add_task(library_id) call made while the scheduler is Active on that
\* library (a worker has taken the library's request from the queue and has not
\* finished handling it, for the whole call) returns "ignored" and puts nothing
\* on the queue.
C4_IgnoredWhileActive ==
    (aret.op = "add" /\ aret.activeAtCall) => (aret.status = "ignored" /\ aret.id = 0)

\* C5: when handling a request raised an exception, then at the moment the worker
\* has finished handling it is_scanning is False, current_task is None and the
\* library's persisted is_scanning flag is False.
C5_RecoveryAfterRaise ==
    [][\A w \in WorkerSlots :
          (wpc[w] = "task_done" /\ wpc'[w] = "get" /\ wraised[w]) =>
              /\ is_scanning' = FALSE
              /\ current_task' = NoneTask
              /\ (wtask[w].library_id \in libExists' =>
                      libScanning'[wtask[w].library_id] = FALSE)]_vars

\* the worker threads that are inside _run_scan
ScansRunning == {w \in WorkerSlots : wpc[w] \in {"query", "mark", "scan", "cleanup"}}

\* C6: at every moment at most one scan job is running.
C6_OneScanAtATime == Cardinality(ScansRunning) <= 1

\* C6 witness: a scan is running while a request for another library is pending
C6_Witness ==
    \E w \in WorkerSlots :
        /\ wpc[w] = "scan"
        /\ \E i \in 1..Len(queue) : queue[i].library_id # wtask[w].library_id

\* C7: requests are run in the order add_task queued them (ghost ids count the
\* puts): whenever a scan starts, the scan of every request queued earlier has
\* started and finished before.
C7_FifoOrder ==
    \A j \in 1..Len(log) :
        log[j][1] = "start" =>
            \A a \in 1..(log[j][2] - 1) :
                \E i \in 1..(j - 1) : log[i] = <<"end", a>>

\* C7 witness: two requests have been queued and both scans have run
C7_Witness ==
    /\ Len(log) = 4
    /\ log[1] = <<"start", 1>>
    /\ log[3] = <<"start", 2>>

\* C8: every get_status() result has is_scanning true exactly when
\* current_library_id is not None.
C8_StatusSnapshot ==
    (aret.op = "status" /\ aret.status = "ok") =>
        (aret.is_scanning <=> aret.current_library_id # NoneLib)

\* C9: an add_task call that returns "queued" returns as position the number of
\* pending requests up to and including the new one, which is at least 1.
C9_QueuedPosition ==
    (aret.op = "add" /\ aret.status = "queued") =>
        (aret.position >= 1 /\ aret.position = aret.index)

\* the request with ghost id n has been put on the queue (add_task line 51)
Queued(n) == nextId >= n
\* the worker has called _run_scan for the request with ghost id n
Run(n) == \E i \in 1..Len(log) : log[i] = <<"start", n>>

\* C24: every request add_task has put on the queue is eventually run by the
\* worker, also when the scan of an earlier request raised (every scan job
\* returns or raises; the stop event is never set).
C24_QueuedEventuallyRun == \A n \in 1..MaxTasks : Queued(n) ~> Run(n)

\* C24 witness: the scan of the first request has raised and is being cleaned
\* up while add_task has returned "queued" for the second request, which the
\* worker has not taken yet
C24_Witness ==
    /\ \E w \in WorkerSlots : wtask[w].id = 1 /\ wraised[w] /\ wpc[w] = "cleanup"
    /\ aret.op = "add" /\ aret.status = "queued" /\ aret.id = 2
    /\ \E i \in 1..Len(queue) : queue[i].id = 2

\* C26: no library id is the Active job (current_task) and pending in the queue
\* at the same time, and no library id occupies more than one pending slot.
C26_NoDuplicateLibrary ==
    \A l \in LibIds :
        /\ ~(current_task.library_id = l /\ \E i \in 1..Len(queue) : queue[i].library_id = l)
        /\ Cardinality({i \in 1..Len(queue) : queue[i].library_id = l}) <= 1

\* C27: a library's persisted is_scanning flag is set only while that library is
\* the Active job (current_task); hence at most one library has it set, and none
\* has while current_task is None.
C27_FlagOnlyWhileActive ==
    \A l \in LibIds : libScanning[l] => current_task.library_id = l

\* ========================================================================
\* Claims about the thumbnail pipeline (checked under SpecThumb)
\* ========================================================================
\* the comics _get_target_comics selected for the run
Candidates == {comics[i] : i \in 1..Len(comics)}

\* a step of the writer process: it moves on in _thumbnail_writer or takes an
\* item from result_queue
IsWriterStep ==
    /\ tpc # "none"
    /\ (tpc' # tpc \/ (result_queue # <<>> /\ result_queue' = Tail(result_queue)))

\* a step of a pool worker: one task leaves the set of tasks not yet run
IsWorkerStep == pending' # pending /\ pending' \subseteq pending

\* a step of another request (process_series_thumbnails)
IsExternalStep == externalUpdates' # externalUpdates

C3_NoWriteOnFailure ==
    [][\A c \in Comics :
          (Failed(outcome'[c]) /\ ~IsExternalStep) => db'[c] = db[c]]_vars

\* C3 witness: the parallel writer has handled the error result of a comic that
\* had a stored thumbnail, and the stored thumbnail is still there
C3_Witness ==
    \E c \in Comics :
        /\ mode = "par"
        /\ Failed(outcome[c])
        /\ \E i \in 1..Len(writerLog) :
              writerLog[i].comic_id = c /\ writerLog[i].status = "error"
        /\ externalUpdates = 0
        /\ db[c].thumbnail_path = "prev"

\* C10 as claimed, its second clause: every parallel run has exactly one writer.
C10_ExactlyOneWriter ==
    (mode = "par" /\ opc = "done") => writersStarted = 1

\* C10 amended: in parallel mode a comic row is changed only by a step of the
\* writer process (or of another request), never by a worker or the orchestrator;
\* at most one writer is started per run: exactly one once a task is dispatched,
\* none when the run returns early because no comic or no task is left.
C10_SingleWriter ==
    /\ [][(mode = "par" /\ db' # db) => (IsWriterStep \/ IsExternalStep)]_vars
    /\ [](mode = "par" =>
            /\ writersStarted <= 1
            /\ (opc \in {"pool", "collect", "join"} => writersStarted = 1)
            /\ (opc = "done" => (writersStarted = 1 <=> tasks # <<>>)))

\* C10 witness: while the parallel run is in progress its one writer has already
\* stored a result
C10_Witness ==
    /\ mode = "par"
    /\ opc = "pool"
    /\ writersStarted = 1
    /\ \E i \in 1..Len(writerLog) :
          /\ writerLog[i].status = "processed"
          /\ db[writerLog[i].comic_id].thumbnail_path = "cover"

\* the batch a writer step hands to _apply_batch: the remaining items at the
\* final flush, the batch with the item just taken otherwise
AppliedBatch ==
    IF tpc = "flush" THEN batch ELSE Append(batch, Head(result_queue))

\* the number of times the writer has applied a result for comic c
TimesApplied(c) == Cardinality({i \in 1..Len(writerLog) : writerLog[i].comic_id = c})

RECURSIVE SequentialRun(_, _, _, _)
SequentialRun(dbv, st, cs, outc) ==
    IF cs = <<>> THEN [rows |-> dbv, stats |-> st]
    ELSE LET c == Head(cs)
             o == outc[c]
         IN IF o = "skip"
            THEN SequentialRun(dbv, [st EXCEPT !.skipped = @ + 1], Tail(cs), outc)
            ELSE SequentialRun(IF Succeeded(o)
                                  THEN [dbv EXCEPT ![c] = SeqUpdateRow(dbv[c], o)]
                                  ELSE dbv,
                               SeqCount(st, o), Tail(cs), outc)

LibraryComics == {c \in Comics : ComicLibrary(c) = library_id}

TaskComics == {tasks[i] : i \in 1..Len(tasks)}

\* the writer has taken the result of comic c from result_queue
ReceivedByWriter(c) ==
    /\ c \in TaskComics
    /\ c \notin pending
    /\ \A i \in 1..Len(imap) : imap[i].comic_id # c
    /\ \A i \in 1..Len(result_queue) : result_queue[i].comic_id # c

\* the result of comic c is in the database: a successful result's path and
\* palette are stored in the comic's row, if the row exists; a failed result has
\* nothing to store
Committed(c) ==
    (c \in rows /\ Succeeded(outcome[c])) =>
        /\ db[c].thumbnail_path = "cover"
        /\ outcome[c] = "ok_palette" => db[c].color_primary = "new"

\* the sentinel has been put on result_queue
SentinelPut == opc \in {"collect", "join", "done"} /\ tasks # <<>>

\* the sentinel is put after every worker result, and nothing is put after it
SentinelLast ==
    /\ SentinelPut => (pending = {} /\ imap = <<>>)
    /\ \A i \in 1..Len(result_queue) :
          result_queue[i] = Sentinel => (SentinelPut /\ i = Len(result_queue))

\* a run that started a writer has returned only after it took the writer's
\* summary from stats_queue and added it to its stats
ReturnedAfterSummary ==
    (opc = "done" /\ writersStarted > 0) =>
        /\ tpc \in {"exit", "failed"}
        /\ \A i \in 1..Len(stats_queue) : ~stats_queue[i].summary
        /\ stats.processed = wprocessed
        /\ stats.errors = werrors

Reported(st) == Cardinality({i \in 1..Len(writerLog) : writerLog[i].status = st})

\* C29: when the writer has put its summary, the summary's processed count is
\* the number of items it reported with status "processed" (the comics whose
\* record it updated) and its errors count is the number of items it reported
\* with status "error".
C29_SummaryMatchesStatuses ==
    tpc \in {"exit", "failed"} =>
        /\ wprocessed = Reported("processed")
        /\ werrors = Reported("error")

\* C30: once the pool is created, its number of worker processes is the
\* configured value when that is positive and not above the host's core count,
\* and the core count when the configured value is zero, negative or above the
\* core count; it is at least 1 and at most the core count.
C30_PoolSizeBounds ==
    writersStarted >= 1 =>
        /\ (requested_workers > 0 /\ requested_workers <= cpu_count) =>
               workers = requested_workers
        /\ (requested_workers <= 0 \/ requested_workers > cpu_count) =>
               workers = cpu_count
        /\ 1 <= workers
        /\ workers <= cpu_count

\* C30 witness: three workers were configured on a host of two cores, and the
\* pool was created with two
C30_Witness ==
    /\ opc = "pool"
    /\ requested_workers = 3
    /\ cpu_count = 2
    /\ workers = 2

\* C25: process_missing_thumbnails_parallel eventually returns (or raises at its
\* library id guard), also when the writer process fails while it opens its
\* database session or while it applies a batch. Checked under FairSpecPar.
C25_EventuallyReturns == <>(opc \in {"done", "raised"})

\* ========================================================================
\* ComicArchive.get_pages  (archive.py:54-115)
\* ========================================================================
\* the characters of the model's entry names, in code point order
AsciiOrder ==
    <<" ", "-", ".", "/", "0", "1", "2", "3", "4", "5", "6", "7", "8", "9", "A", "B",
      "C", "D", "E", "F", "G", "H", "I", "J", "K", "L", "M", "N", "O", "P", "Q", "R",
      "S", "T", "U", "V", "W", "X", "Y", "Z", "_", "a", "b", "c", "d", "e", "f", "g",
      "h", "i", "j", "k", "l", "m", "n", "o", "p", "q", "r", "s", "t", "u", "v", "w",
      "x", "y", "z", "~">>
Ord(ch) == CHOOSE i \in 1..Len(AsciiOrder) : AsciiOrder[i] = ch
UpperCase == {AsciiOrder[i] : i \in Ord("A")..Ord("Z")}
Digits == {AsciiOrder[i] : i \in Ord("0")..Ord("9")}

\* str.lower()
Lower(str) ==
    [i \in 1..Len(str) |->
        IF str[i] \in UpperCase THEN AsciiOrder[Ord(str[i]) - Ord("A") + Ord("a")]
        ELSE str[i]]

\* str.endswith(suffix)
EndsWith(str, suffix) ==
    /\ Len(suffix) <= Len(str)
    /\ SubSeq(str, Len(str) - Len(suffix) + 1, Len(str)) = suffix

\* the largest / smallest element of a non-empty set of integers
SetMax(S) == CHOOSE x \in S : \A y \in S : y <= x
SetMin(S) == CHOOSE x \in S : \A y \in S : x <= y

\* pathlib: Path(f).name, the part after the last "/"
PathName(f) ==
    LET slashes == {i \in 1..Len(f) : f[i] = "/"}
    IN IF slashes = {} THEN f ELSE SubSeq(f, SetMax(slashes) + 1, Len(f))

\* pathlib: Path(f).suffix, the part of the name from its last "." on, provided
\* the "." is neither the first nor the last character of the name
PathSuffix(f) ==
    LET name == PathName(f)
        dots == {i \in 1..Len(name) : name[i] = "."}
    IN IF dots = {} THEN <<>>
       ELSE LET i == SetMax(dots)
            IN IF 1 < i /\ i < Len(name) THEN SubSeq(name, i, Len(name)) ELSE <<>>

\* lines 57, 60, 61: the extension and name sets
image_extensions ==
    {<<".", "j", "p", "g">>,
     <<".", "j", "p", "e", "g">>,
     <<".", "p", "n", "g">>,
     <<".", "w", "e", "b", "p">>,
     <<".", "g", "i", "f">>,
     <<".", "b", "m", "p">>,
     <<".", "t", "i", "f", "f">>}
ignore_patterns ==
    {<<"t", "h", "u", "m", "b", "s", ".", "d", "b">>,
     <<".", "d", "s", "_", "s", "t", "o", "r", "e">>,
     <<"c", "o", "m", "i", "c", "i", "n", "f", "o", ".", "x", "m", "l">>,
     <<"_", "_", "m", "a", "c", "o", "s", "x">>}
ignore_extensions ==
    {<<".", "n", "f", "o">>,
     <<".", "s", "f", "v">>,
     <<".", "t", "x", "t">>,
     <<".", "x", "m", "l">>,
     <<".", "d", "b">>,
     <<".", "i", "n", "i">>}

\* a mutation of lines 75 and 79: the suffix is compared as it is spelled
IsPageCaseSensitive(f) ==
    /\ Lower(PathName(f)) \notin ignore_patterns
    /\ PathSuffix(f) \notin ignore_extensions
    /\ PathSuffix(f) \in image_extensions

\* lines 67-81: whether the entry f is kept as a page
IsPage(f) ==
    /\ Lower(PathName(f)) \notin ignore_patterns
    /\ Lower(PathSuffix(f)) \notin ignore_extensions
    /\ Lower(PathSuffix(f)) \in image_extensions

\* lines 66-81: the entries kept, in archive order
FilterPages(fs) == SelectSeq(fs, IsPage)

\* regex \b: position i of text (between text[i] and text[i+1]) is a word boundary
IsWordChar(ch) ==
    ch \in UpperCase \cup {AsciiOrder[i] : i \in Ord("a")..Ord("z")} \cup Digits \cup {"_"}
WordBoundary(text, i) ==
    LET before == i >= 1 /\ IsWordChar(text[i])
        after == i < Len(text) /\ IsWordChar(text[i + 1])
    IN before # after

\* re.search(r'\b(fc|cover|front)\b', text)
CoverMatch(text) ==
    \E w \in {<<"f", "c">>,
              <<"c", "o", "v", "e", "r">>,
              <<"f", "r", "o", "n", "t">>} :
      \E i \in 0..(Len(text) - Len(w)) :
        /\ SubSeq(text, i + 1, i + Len(w)) = w
        /\ WordBoundary(text, i)
        /\ WordBoundary(text, i + Len(w))

\* a mutation of line 98: no page gets the cover priority
CoverPriorityNone(text) == 1

\* line 98: is_cover
CoverPriority(text) == IF CoverMatch(text) THEN 0 ELSE 1

\* line 103: text.replace('-', '~').replace('_', '~')
ReplaceSeparators(text) ==
    [i \in 1..Len(text) |-> IF text[i] \in {"-", "_"} THEN "~" ELSE text[i]]

\* re.split(r'(\d+)', text): text and digit runs in turn, the first and the last
\* being text (possibly ''); d tells whether a digit run comes next, n is the
\* length of the run at the head of str
RECURSIVE SplitRuns(_, _)
SplitRuns(str, d) ==
    LET other == {i \in 1..Len(str) : (str[i] \in Digits) # d}
        n == IF other = {} THEN Len(str) ELSE SetMin(other) - 1
        rest == SubSeq(str, n + 1, Len(str))
    IN IF d THEN <<SubSeq(str, 1, n)>> \o SplitRuns(rest, FALSE)
       ELSE IF rest = <<>> THEN <<SubSeq(str, 1, n)>>
       ELSE <<SubSeq(str, 1, n)>> \o SplitRuns(rest, TRUE)
SplitDigits(text) == SplitRuns(text, FALSE)

\* int(c) of a string of digits
RECURSIVE IntOf(_)
IntOf(c) ==
    IF c = <<>> THEN 0
    ELSE 10 * IntOf(SubSeq(c, 1, Len(c) - 1)) + (Ord(c[Len(c)]) - Ord("0"))

\* a mutation of line 107: digit runs are kept as text
NaturalPartAsText(c) == [isint |-> FALSE, int |-> 0, str |-> c]

\* line 107: int(c) if c.isdigit() else c; an element of natural_parts is an
\* int or a str
NaturalPart(c) ==
    IF c # <<>> /\ \A i \in 1..Len(c) : c[i] \in Digits
    THEN [isint |-> TRUE, int |-> IntOf(c), str |-> <<>>]
    ELSE [isint |-> FALSE, int |-> 0, str |-> c]

\* lines 92-110: sort_key(filename)
SortKey(filename) ==
    LET text == Lower(filename)
        split == SplitDigits(ReplaceSeparators(text))
    IN [is_cover |-> CoverPriority(text),
        natural_parts |-> [i \in 1..Len(split) |-> NaturalPart(split[i])]]

\* Python's < on str: by code point at the first difference, a proper prefix first
StrLess(a, b) ==
    LET n == IF Len(a) < Len(b) THEN Len(a) ELSE Len(b)
        diff == {i \in 1..n : a[i] # b[i]}
    IN IF diff = {} THEN Len(a) < Len(b)
       ELSE Ord(a[SetMin(diff)]) < Ord(b[SetMin(diff)])

\* Python's < on two elements of natural_parts; both are ints or both are strs,
\* because re.split puts text at the even and digit runs at the odd list indices
PartLess(x, y) ==
    IF x.isint /\ y.isint THEN x.int < y.int
    ELSE IF ~x.isint /\ ~y.isint THEN StrLess(x.str, y.str)
    ELSE FALSE

\* Python's < on lists: by the first differing element, a proper prefix first
ListLess(a, b) ==
    LET n == IF Len(a) < Len(b) THEN Len(a) ELSE Len(b)
        diff == {i \in 1..n : a[i] # b[i]}
    IN IF diff = {} THEN Len(a) < Len(b)
       ELSE PartLess(a[SetMin(diff)], b[SetMin(diff)])

\* Python's < on the key tuples (is_cover, natural_parts)
KeyLess(k1, k2) ==
    \/ k1.is_cover < k2.is_cover
    \/ k1.is_cover = k2.is_cover /\ ListLess(k1.natural_parts, k2.natural_parts)

\* list.sort(key=sort_key) is stable: x goes before the first element whose key
\* is greater than its own
InsertByKey(sorted, x) ==
    LET greater == {i \in 1..Len(sorted) : KeyLess(SortKey(x), SortKey(sorted[i]))}
    IN IF greater = {} THEN Append(sorted, x)
       ELSE LET i == SetMin(greater)
            IN SubSeq(sorted, 1, i - 1) \o <<x>> \o SubSeq(sorted, i, Len(sorted))

\* line 113: pages.sort(key=sort_key)
RECURSIVE SortPages(_)
SortPages(ps) ==
    IF ps = <<>> THEN <<>>
    ELSE InsertByKey(SortPages(SubSeq(ps, 1, Len(ps) - 1)), ps[Len(ps)])

\* lines 54-115: get_pages() of an archive with the entries fs
GetPages(fs) == SortPages(FilterPages(fs))

\* the entry names archives are built from
Name ==
    [FC |-> <<"F", "C", ".", "j", "p", "g">>,    \* FC.jpg
     p002 |-> <<"0", "0", "2", ".", "j", "p", "g">>,    \* 002.jpg
     p004 |-> <<"0", "0", "4", ".", "j", "p", "g">>,    \* 004.jpg
     p2 |-> <<"p", "2", ".", "p", "n", "g">>,    \* p2.png
     p10 |-> <<"p", "1", "0", ".", "p", "n", "g">>,    \* p10.png
     c2 |-> <<"c", "-", "2", ".", "w", "e", "b", "p">>,    \* c-2.webp
     c10 |-> <<"c", "-", "1", "0", ".", "w", "e", "b", "p">>,    \* c-10.webp
     a9 |-> <<"a", "_", "9", ".", "g", "i", "f">>,    \* a_9.gif
     a10 |-> <<"a", "_", "1", "0", ".", "g", "i", "f">>,    \* a_10.gif
     front |-> <<"d", "/", "f", "r", "o", "n", "t", " ", "1", ".", "J", "P", "G">>,    \* d/front 1.JPG
     xfc |-> <<"x", "f", "c", ".", "j", "p", "g">>,    \* xfc.jpg
     txt |-> <<"f", "c", ".", "t", "x", "t">>,    \* fc.txt
     thumbs |-> <<"T", "h", "u", "m", "b", "s", ".", "d", "b">>,    \* Thumbs.db
     PNG |-> <<"B", ".", "P", "N", "G">>]    \* B.PNG
ArchiveCatalog ==
    {Name.FC, Name.p002, Name.p004, Name.p2, Name.p10, Name.c2, Name.c10, Name.a9,
     Name.a10, Name.front, Name.xfc, Name.txt, Name.thumbs}

\* the sequences of at most n distinct elements of S
DistinctSeqs(S, n) ==
    {q \in UNION {[1..k -> S] : k \in 0..n} : \A i, j \in 1..Len(q) : q[i] = q[j] => i = j}

\* line 63: files = self.get_file_list()
GetPagesStart ==
    /\ gpc = "start"
    /\ gpc' = "filter"
    /\ pages' = <<>>
    /\ UNCHANGED <<scanVars, thumbVars, navVars, files, pageVars>>

\* lines 65-81: the loop that keeps the image entries
GetPagesFilter ==
    /\ gpc = "filter"
    /\ pages' = FilterPages(files)
    /\ gpc' = "sort"
    /\ UNCHANGED <<scanVars, thumbVars, navVars, files, pageVars>>

\* lines 113-115: the sort and the return
GetPagesSort ==
    /\ gpc = "sort"
    /\ pages' = SortPages(pages)
    /\ gpc' = "returned"
    /\ UNCHANGED <<scanVars, thumbVars, navVars, files, pageVars>>

\* one call of get_pages on an archive of at most MaxEntries entries
InitArchive ==
    /\ InitScanManager
    /\ ThumbQuiescent
    /\ NavQuiescent
    /\ PageQuiescent
    /\ files \in DistinctSeqs(ArchiveCatalog, MaxEntries)
    /\ gpc = "start"
    /\ pages = <<>>

NextArchive ==
    \/ GetPagesStart
    \/ GetPagesFilter
    \/ GetPagesSort

SpecArchive == InitArchive /\ [][NextArchive]_vars


\* ========================================================================
\* Claims about the page list (checked under SpecArchive)
\* ========================================================================

\* C19: in the list get_pages returns, every page whose lowercased name matches
\* fc, cover or front as a whole word comes before every page whose name does
\* not match.
C19_CoversFirst ==
    gpc = "returned" =>
        \A i, j \in 1..Len(pages) :
            (CoverMatch(Lower(pages[i])) /\ ~CoverMatch(Lower(pages[j]))) => i < j

\* C19 witness: the archive lists 004.jpg, FC.jpg, 002.jpg and the page list is
\* FC.jpg, 002.jpg, 004.jpg
C19_Witness ==
    /\ gpc = "returned"
    /\ files = <<Name.p004, Name.FC, Name.p002>>
    /\ pages = <<Name.FC, Name.p002, Name.p004>>

\* the names a and b differ only in one numeric run, whose integer value is
\* smaller in a
SmallerNumericRun(a, b) ==
    LET sa == SplitDigits(a)
        sb == SplitDigits(b)
    IN /\ Len(sa) = Len(sb)
       /\ \E k \in 1..Len(sa) :
             /\ k % 2 = 0
             /\ IntOf(sa[k]) < IntOf(sb[k])
             /\ \A m \in 1..Len(sa) : m # k => sa[m] = sb[m]

\* C20: of two pages whose names differ only in one numeric run, get_pages puts
\* the one with the smaller integer value first.
C20_NaturalOrder ==
    gpc = "returned" =>
        \A i, j \in 1..Len(pages) : SmallerNumericRun(pages[i], pages[j]) => i < j

\* C20 witness: c-10.webp precedes c-2.webp in the archive, and c-2.webp precedes
\* c-10.webp in the page list
C20_Witness ==
    /\ gpc = "returned"
    /\ files = <<Name.c10, Name.c2>>
    /\ pages = <<Name.c2, Name.c10>>

\* number of occurrences of x in the sequence q
Occurrences(q, x) == Cardinality({i \in 1..Len(q) : q[i] = x})

\* the entry f has a raster image extension (compared in lower case) and is not
\* dropped by the ignore names or the ignore extensions
KeptEntry(f) ==
    /\ Lower(PathSuffix(f)) \in image_extensions
    /\ ~(Lower(PathName(f)) \in ignore_patterns \/ Lower(PathSuffix(f)) \in ignore_extensions)

\* C21: the list get_pages returns is a permutation of the archive's kept
\* entries: every entry with a raster image extension that the ignore sets do not
\* drop is in it exactly as often as in the archive (once), and nothing else is.
C21_FilteredPermutation ==
    gpc = "returned" =>
        /\ \A f \in ArchiveCatalog :
              Occurrences(pages, f) = IF KeptEntry(f) THEN Occurrences(files, f) ELSE 0
        /\ \A i \in 1..Len(pages) : pages[i] \in ArchiveCatalog

\* C21 witness: of Thumbs.db, d/front 1.JPG and fc.txt only the upper-case JPG
\* entry is returned
C21_Witness ==
    /\ gpc = "returned"
    /\ files = <<Name.thumbs, Name.front, Name.txt>>
    /\ pages = <<Name.front>>


\* ========================================================================
\* ImageService.get_page_image (images.py:20-122) behind the page endpoint
\* get_comic_page (api/reader.py:249-306)
\* ========================================================================
\* line 87: max_dimension
max_dimension == 2560

\* widths and heights of the pictures stored in the archives
Dims == {800, 2560, 2561, 5000}
\* Pillow modes of the stored pictures
SourceModes == {"RGB", "RGBA", "P"}

\* the entry names of the archives pages are served from
PageCatalog == {Name.FC, Name.PNG, Name.c2, Name.a9, Name.txt}

\* the requests: page_index and the three query flags
Requests ==
    [page_index : -1..MaxPageEntries, sharpen : BOOLEAN, grayscale : BOOLEAN,
     webp : BOOLEAN]

\* a mutation of lines 60-63: the extension is not looked at
MimeOfAlwaysJpeg(filename) == "image/jpeg"

\* lines 60-63: the mime type of a lowercased entry name
MimeOf(filename) ==
    IF EndsWith(filename, <<".", "p", "n", "g">>) THEN "image/png"
    ELSE IF EndsWith(filename, <<".", "w", "e", "b", "p">>) THEN "image/webp"
    ELSE IF EndsWith(filename, <<".", "g", "i", "f">>) THEN "image/gif"
    ELSE "image/jpeg"

\* a mutation of line 49: the test for a negative index is missing
IndexInRangeNoLowerCheck(i, n) == ~(i >= n)

\* line 49: the negation of `page_index < 0 or page_index >= len(pages)`
IndexInRange(i, n) == ~(i < 0 \/ i >= n)

\* a mutation of line 68: a WebP source is transcoded like any other
NeedsTranscodeAnyFormat(webp, bytes, mime) == webp /\ ~bytes.empty

\* line 68: transcode_webp and original_size > 0 and mime_type != "image/webp"
NeedsTranscode(webp, bytes, mime) == webp /\ ~bytes.empty /\ mime # "image/webp"

Abs(x) == IF x < 0 THEN 0 - x ELSE x

\* Pillow's Image.thumbnail((m, m)) on a w x h image larger than m in some
\* dimension: the longer side becomes m, the other one the floor or the ceiling
\* of its scaled length, whichever keeps the aspect ratio better, at least 1
ThumbnailSize(w, h, m) ==
    IF w <= h
    THEN LET fl == (m * w) \div h
             ce == IF (m * w) % h = 0 THEN fl ELSE fl + 1
             best == IF Abs(w * m - fl * h) <= Abs(w * m - ce * h) THEN fl ELSE ce
         IN [width |-> IF best < 1 THEN 1 ELSE best, height |-> m]
    ELSE LET fl == (m * h) \div w
             ce == IF (m * h) % w = 0 THEN fl ELSE fl + 1
             best == IF fl = 0 THEN fl
                     ELSE IF Abs(w * fl - m * h) * ce <= Abs(w * ce - m * h) * fl THEN fl
                     ELSE ce
         IN [width |-> m, height |-> IF best < 1 THEN 1 ELSE best]

\* a mutation of lines 113-118: the fallback returns nothing
FallbackResultNone(bytes, mime) ==
    [bytes |-> NoneBytes, success |-> FALSE, mime |-> "application/octet-stream"]

\* line 118: return image_bytes, False, mime_type
FallbackResult(bytes, mime) == [bytes |-> bytes, success |-> FALSE, mime |-> mime]

\* a mutation of reader.py lines 293-300: every response is cacheable
CachePolicyAlwaysPublic(is_correct_format) == "public, max-age=31536000"

\* reader.py lines 293-300: the Cache-Control header
CachePolicy(is_correct_format) ==
    IF is_correct_format THEN "public, max-age=31536000"
    ELSE "no-cache, no-store, must-revalidate"

\* reader.py lines 282-286: the extension of the Content-Disposition file name
ResponseExtension(webp, mime) ==
    IF ~webp /\ mime = "image/gif" THEN "gif"
    ELSE IF ~webp /\ mime = "image/png" THEN "png"
    ELSE IF mime = "image/webp" THEN "webp"
    ELSE "jpg"

\* reader.py lines 250-275: a request arrives; the comic's file_path is looked
\* up, a missing comic is answered with 404, otherwise get_page_image is called
PageRequest ==
    /\ ppc = "start"
    /\ \E r \in Requests, found \in BOOLEAN :
          /\ req' = r
          /\ IF found
             THEN /\ ppc' = "exists"
                  /\ UNCHANGED <<resp, fault>>
             ELSE /\ ppc' = "responded"
                  /\ resp' = [NoResp EXCEPT !.status = 404]
                  /\ fault' = "notfound"
    /\ UNCHANGED <<scanVars, thumbVars, navVars, archVars, page_count, handle, plist, image_bytes, mime_type,
                   needs_transcode, img, ret>>

\* images.py lines 39-43: the comic file must exist
PageExists ==
    /\ ppc = "exists"
    /\ \E exists \in BOOLEAN :
          IF exists
          THEN /\ ppc' = "open"
               /\ UNCHANGED <<ret, fault>>
          ELSE /\ ppc' = "respond"
               /\ ret' = NoneResult
               /\ fault' = "nofile"
    /\ UNCHANGED <<scanVars, thumbVars, navVars, archVars, page_count, req, handle, plist, image_bytes,
                   mime_type, needs_transcode, img, resp>>

\* images.py line 45: ComicArchive(file_path) opens the archive, or raises
\* (unsupported or corrupt file)
PageOpen ==
    /\ ppc = "open"
    /\ \E ok \in BOOLEAN :
          IF ok
          THEN /\ ppc' = "list"
               /\ handle' = "open"
               /\ UNCHANGED fault
          ELSE /\ ppc' = "outer_except"
               /\ fault' = "open"
               /\ UNCHANGED handle
    /\ UNCHANGED <<scanVars, thumbVars, navVars, archVars, page_count, req, plist, image_bytes, mime_type,
                   needs_transcode, img, ret, resp>>

\* images.py lines 47-51: the page list and the index test; leaving the with
\* block closes the archive
PageList ==
    /\ ppc = "list"
    /\ \E ok \in BOOLEAN :
          IF ~ok
          THEN /\ ppc' = "outer_except"
               /\ handle' = "closed"
               /\ fault' = "list"
               /\ UNCHANGED <<plist, ret>>
          ELSE /\ plist' = GetPages(files)
               /\ IF IndexInRange(req.page_index, Len(GetPages(files)))
                  THEN /\ ppc' = "read"
                       /\ UNCHANGED <<handle, ret, fault>>
                  ELSE /\ ppc' = "respond"
                       /\ ret' = NoneResult
                       /\ handle' = "closed"
                       /\ fault' = "range"
    /\ UNCHANGED <<scanVars, thumbVars, navVars, archVars, page_count, req, image_bytes, mime_type,
                   needs_transcode, img, resp>>

\* Python's list[i] is defined for -len <= i < len
PyIndexable(i, n) == 0 - n <= i /\ i < n
PyIndex(list, i) == IF i >= 0 THEN list[i + 1] ELSE list[Len(list) + i + 1]

\* images.py lines 54-72: the entry is read (pages[page_index] or read_file may
\* raise), the mime type is detected, and the raw bytes are returned on the fast
\* path
PageRead ==
    /\ ppc = "read"
    /\ \E ok \in BOOLEAN :
          IF ~ok \/ ~PyIndexable(req.page_index, Len(plist))
          THEN /\ ppc' = "outer_except"
               /\ handle' = "closed"
               /\ fault' = "read"
               /\ UNCHANGED <<image_bytes, mime_type, needs_transcode, ret>>
          ELSE \E empty \in BOOLEAN, w \in Dims, h \in Dims :
                 LET name == PyIndex(plist, req.page_index)
                     bytes == IF empty THEN RawBytes(name, TRUE, 0, 0)
                              ELSE RawBytes(name, FALSE, w, h)
                     mime == MimeOf(Lower(name))
                     transcode == NeedsTranscode(req.webp, bytes, mime)
                 IN /\ image_bytes' = bytes
                    /\ mime_type' = mime
                    /\ needs_transcode' = transcode
                    /\ UNCHANGED fault
                    /\ IF ~req.sharpen /\ ~req.grayscale /\ ~transcode
                       THEN /\ ret' = [bytes |-> bytes, success |-> TRUE, mime |-> mime]
                            /\ handle' = "closed"
                            /\ ppc' = "respond"
                       ELSE /\ ppc' = "decode"
                            /\ UNCHANGED <<ret, handle>>
    /\ UNCHANGED <<scanVars, thumbVars, navVars, archVars, page_count, req, plist, img, resp>>

\* images.py lines 76-81: Image.open and the mode normalisation; bytes that hold
\* no picture cannot be opened
PageDecode ==
    /\ ppc = "decode"
    /\ \E ok \in BOOLEAN, m \in SourceModes :
          IF ~ok \/ image_bytes.empty
          THEN /\ ppc' = "fallback"
               /\ fault' = "decode"
               /\ UNCHANGED img
          ELSE /\ ppc' = "resize"
               /\ img' = [NoImg EXCEPT !.name = image_bytes.name,
                                       !.width = image_bytes.width,
                                       !.height = image_bytes.height,
                                       !.mode = IF m \in {"RGB", "L", "RGBA"} THEN m
                                                ELSE "RGB"]
               /\ UNCHANGED fault
    /\ UNCHANGED <<scanVars, thumbVars, navVars, archVars, page_count, req, handle, plist, image_bytes,
                   mime_type, needs_transcode, ret, resp>>

\* images.py lines 86-89: with transcoding requested, an image larger than
\* max_dimension is scaled down
PageResize ==
    /\ ppc = "resize"
    /\ IF req.webp /\ (img.width > max_dimension \/ img.height > max_dimension)
       THEN \E ok \in BOOLEAN :
               IF ok
               THEN LET size == ThumbnailSize(img.width, img.height, max_dimension)
                    IN /\ img' = [img EXCEPT !.width = size.width, !.height = size.height]
                       /\ ppc' = "filter"
                       /\ UNCHANGED fault
               ELSE /\ ppc' = "fallback"
                    /\ fault' = "resize"
                    /\ UNCHANGED img
       ELSE /\ ppc' = "filter"
            /\ UNCHANGED <<img, fault>>
    /\ UNCHANGED <<scanVars, thumbVars, navVars, archVars, page_count, req, handle, plist, image_bytes,
                   mime_type, needs_transcode, ret, resp>>

\* images.py lines 92-97: grayscale, then sharpen
PageFilter ==
    /\ ppc = "filter"
    /\ \E ok \in BOOLEAN :
          IF ok \/ (~req.grayscale /\ ~req.sharpen)
          THEN /\ img' = [img EXCEPT !.gray = req.grayscale,
                                     !.mode = IF req.grayscale THEN "L" ELSE @,
                                     !.sharp = req.sharpen]
               /\ ppc' = "encode"
               /\ UNCHANGED fault
          ELSE /\ ppc' = "fallback"
               /\ fault' = "filter"
               /\ UNCHANGED img
    /\ UNCHANGED <<scanVars, thumbVars, navVars, archVars, page_count, req, handle, plist, image_bytes,
                   mime_type, needs_transcode, ret, resp>>

\* images.py lines 100-111: the image is saved as WebP when a transcode is due
\* or the source is WebP, as JPEG otherwise, and returned; Pillow cannot write
\* an RGBA image as JPEG
PageEncode ==
    /\ ppc = "encode"
    /\ LET asWebp == needs_transcode \/ mime_type = "image/webp"
       IN \E ok \in BOOLEAN :
            IF ok /\ (asWebp \/ img.mode # "RGBA")
            THEN /\ ret' = IF asWebp
                           THEN [bytes |-> EncodedBytes("WEBP", img), success |-> TRUE,
                                 mime |-> "image/webp"]
                           ELSE [bytes |-> EncodedBytes("JPEG", img), success |-> TRUE,
                                 mime |-> "image/jpeg"]
                 /\ handle' = "closed"
                 /\ ppc' = "respond"
                 /\ UNCHANGED fault
            ELSE /\ ppc' = "fallback"
                 /\ fault' = "encode"
                 /\ UNCHANGED <<ret, handle>>
    /\ UNCHANGED <<scanVars, thumbVars, navVars, archVars, page_count, req, plist, image_bytes, mime_type,
                   needs_transcode, img, resp>>

\* a mutation of lines 113-118: the handler returns without the archive being
\* closed
PageFallbackLeak ==
    /\ ppc = "fallback"
    /\ ret' = FallbackResult(image_bytes, mime_type)
    /\ ppc' = "respond"
    /\ UNCHANGED <<scanVars, thumbVars, navVars, archVars, page_count, req, handle, plist,
                   image_bytes, mime_type, needs_transcode, img, resp, fault>>

\* images.py lines 113-118: the handler of the slow path
PageFallback ==
    /\ ppc = "fallback"
    /\ ret' = FallbackResult(image_bytes, mime_type)
    /\ handle' = "closed"
    /\ ppc' = "respond"
    /\ UNCHANGED <<scanVars, thumbVars, navVars, archVars, page_count, req, plist, image_bytes, mime_type,
                   needs_transcode, img, resp, fault>>

\* images.py lines 120-122: the outer handler
PageOuterExcept ==
    /\ ppc = "outer_except"
    /\ ret' = NoneResult
    /\ ppc' = "respond"
    /\ UNCHANGED <<scanVars, thumbVars, navVars, archVars, page_count, req, handle, plist, image_bytes,
                   mime_type, needs_transcode, img, resp, fault>>

\* reader.py lines 277-306: 404 when no bytes came back, otherwise the response
\* with its Cache-Control header
PageRespond ==
    /\ ppc = "respond"
    /\ ppc' = "responded"
    /\ resp' = IF Falsy(ret.bytes)
               THEN [NoResp EXCEPT !.status = 404]
               ELSE [status |-> 200, cache |-> CachePolicy(ret.success),
                     media_type |-> ret.mime,
                     extension |-> ResponseExtension(req.webp, ret.mime),
                     content |-> ret.bytes]
    /\ UNCHANGED <<scanVars, thumbVars, navVars, archVars, page_count, req, handle, plist, image_bytes,
                   mime_type, needs_transcode, img, ret, fault>>

\* images.py lines 127-130: get_page_count is called (by get_comic_reader_init,
\* reader.py line 224); a missing file counts 0 pages
PageCountCall ==
    /\ ppc = "start"
    /\ \E exists \in BOOLEAN :
          IF exists
          THEN /\ ppc' = "count_open"
               /\ UNCHANGED <<page_count, fault>>
          ELSE /\ ppc' = "counted"
               /\ page_count' = 0
               /\ fault' = "nofile"
    /\ UNCHANGED <<scanVars, thumbVars, navVars, archVars, req, handle, plist, image_bytes,
                   mime_type, needs_transcode, img, ret, resp>>

\* images.py line 131: ComicArchive(file_path) opens the archive, or raises and
\* the handler of lines 133-134 returns 0
PageCountOpen ==
    /\ ppc = "count_open"
    /\ \E ok \in BOOLEAN :
          IF ok
          THEN /\ ppc' = "count_list"
               /\ handle' = "open"
               /\ UNCHANGED <<page_count, fault>>
          ELSE /\ ppc' = "counted"
               /\ page_count' = 0
               /\ fault' = "open"
               /\ UNCHANGED handle
    /\ UNCHANGED <<scanVars, thumbVars, navVars, archVars, req, plist, image_bytes, mime_type,
                   needs_transcode, img, ret, resp>>

\* images.py lines 132-134: len(archive.get_pages()) is returned, or 0 when the
\* listing raises; leaving the with block closes the archive
PageCountList ==
    /\ ppc = "count_list"
    /\ handle' = "closed"
    /\ ppc' = "counted"
    /\ \E ok \in BOOLEAN :
          IF ok
          THEN /\ page_count' = Len(GetPages(files))
               /\ UNCHANGED fault
          ELSE /\ page_count' = 0
               /\ fault' = "list"
    /\ UNCHANGED <<scanVars, thumbVars, navVars, archVars, req, plist, image_bytes, mime_type,
                   needs_transcode, img, ret, resp>>

\* one page request on an archive of at most MaxPageEntries entries
InitPage ==
    /\ InitScanManager
    /\ ThumbQuiescent
    /\ NavQuiescent
    /\ ArchiveQuiescent
    /\ files \in DistinctSeqs(PageCatalog, MaxPageEntries)
    /\ ppc = "start"
    /\ req = NoReq
    /\ handle = "none"
    /\ plist = <<>>
    /\ image_bytes = NoneBytes
    /\ mime_type = ""
    /\ needs_transcode = FALSE
    /\ img = NoImg
    /\ ret = NoneResult
    /\ page_count = 0
    /\ resp = NoResp
    /\ fault = "none"

NextPage ==
    \/ PageRequest
    \/ PageExists
    \/ PageOpen
    \/ PageList
    \/ PageRead
    \/ PageDecode
    \/ PageResize
    \/ PageFilter
    \/ PageEncode
    \/ PageFallback
    \/ PageOuterExcept
    \/ PageRespond
    \/ PageCountCall
    \/ PageCountOpen
    \/ PageCountList

SpecPage == InitPage /\ [][NextPage]_vars


\* ========================================================================
\* Claims about get_page_image and the page endpoint (checked under SpecPage)
\* ========================================================================
\* get_page_image has returned
PageReturned == ppc \in {"respond", "responded"}

\* the exception was raised on the slow path (lines 75-111)
SlowPathFaults == {"decode", "resize", "filter", "encode"}

\* the page the request asks for, when its index is valid
RequestedPage == GetPages(files)[req.page_index + 1]
ValidIndex == 0 <= req.page_index /\ req.page_index < Len(GetPages(files))

\* the mime type that belongs to the extension of an entry name
ExtensionMime(name) ==
    LET ext == Lower(PathSuffix(name))
    IN IF ext = <<".", "p", "n", "g">> THEN "image/png"
       ELSE IF ext = <<".", "w", "e", "b", "p">> THEN "image/webp"
       ELSE IF ext = <<".", "g", "i", "f">> THEN "image/gif"
       ELSE "image/jpeg"

\* the page that was read is a WebP file
SourceIsWebp == ExtensionMime(image_bytes.name) = "image/webp"

\* C14 as claimed: with transcoding requested, a WebP source is never re-encoded
\* and the returned image is never wider or higher than 2560, whatever the source
\* format and the sharpen and grayscale options.
C14_TranscodeGuard ==
    (PageReturned /\ req.webp /\ ret.bytes.kind # "none") =>
        /\ (SourceIsWebp => ret.bytes.kind = "raw")
        /\ ret.bytes.width <= 2560
        /\ ret.bytes.height <= 2560

\* C14 amended: with transcoding requested, a WebP source is returned unchanged
\* when neither sharpen nor grayscale is set and is re-encoded only when one of
\* them is; every image get_page_image encodes is WebP and at most 2560 wide and
\* high, and every successful result for a non-empty source that is not WebP is
\* such an encoded image. (An unfiltered WebP source and the success=false
\* fallback return the original bytes, whatever their dimensions.)
C14_TranscodeGuardAmended ==
    (PageReturned /\ req.webp /\ ret.bytes.kind # "none") =>
        /\ (SourceIsWebp /\ ~req.sharpen /\ ~req.grayscale) =>
              ret = [bytes |-> image_bytes, success |-> TRUE, mime |-> "image/webp"]
        /\ (SourceIsWebp /\ ret.bytes.kind = "encoded") => (req.sharpen \/ req.grayscale)
        /\ ret.bytes.kind = "encoded" =>
              /\ ret.bytes.format = "WEBP"
              /\ ret.bytes.width <= 2560
              /\ ret.bytes.height <= 2560
        /\ (ret.success /\ ~SourceIsWebp /\ ~image_bytes.empty) =>
              ret.bytes.kind = "encoded"

\* C14 witness: a 5000 pixel wide page that is not WebP was transcoded to a
\* 2560 pixel wide WebP image
C14_Witness ==
    /\ PageReturned
    /\ req.webp
    /\ ~SourceIsWebp
    /\ image_bytes.width = 5000
    /\ ret.success
    /\ ret.bytes.kind = "encoded"
    /\ ret.bytes.format = "WEBP"
    /\ ret.bytes.width = 2560

\* C15: when a slow path step (decode, resize, filter, encode) raises,
\* get_page_image returns (it does not raise): the bytes it read from the
\* requested page, success False, and the mime type of the page's extension.
C15_SlowPathFallback ==
    fault \in SlowPathFaults =>
        /\ ppc \in {"fallback", "respond", "responded"}
        /\ PageReturned =>
              /\ ret.bytes = image_bytes
              /\ ret.bytes.kind = "raw"
              /\ ret.bytes.name = RequestedPage
              /\ ~ret.success
              /\ ret.mime = ExtensionMime(RequestedPage)

\* C15 witness: encoding a sharpened PNG page raised and the original bytes came
\* back as image/png
C15_Witness ==
    /\ PageReturned
    /\ fault = "encode"
    /\ req.sharpen
    /\ ret.bytes.kind = "raw"
    /\ ~ret.bytes.empty
    /\ ret.mime = "image/png"

\* C16: the endpoint's response carries the no-store policy exactly when
\* get_page_image returned bytes with success False, and the public long-lived
\* policy exactly when it returned bytes with success True; the response to a
\* request whose slow path failed is never marked cacheable, and a response with
\* content carries the bytes get_page_image returned.
C16_CachePolicy ==
    (ppc = "responded" /\ fault # "notfound") =>
        /\ resp.cache = "no-cache, no-store, must-revalidate"
              <=> (~Falsy(ret.bytes) /\ ~ret.success)
        /\ resp.cache = "public, max-age=31536000"
              <=> (~Falsy(ret.bytes) /\ ret.success)
        /\ fault \in SlowPathFaults => resp.cache # "public, max-age=31536000"
        /\ resp.status = 200 => resp.content = ret.bytes

\* C16 witness: the grayscale filter failed, and the original bytes were sent
\* with the no-store policy
C16_Witness ==
    /\ ppc = "responded"
    /\ fault = "filter"
    /\ req.grayscale
    /\ resp.status = 200
    /\ resp.content.kind = "raw"
    /\ resp.cache = "no-cache, no-store, must-revalidate"

\* C17: with sharpen, grayscale and transcode unset, a call that fails nowhere
\* (the index is valid, the archive can be opened and read) returns the raw
\* bytes of the entry at that ordinal of the ordered page list, success True, and
\* the mime type of the entry's extension.
C17_FastPathIdentity ==
    (PageReturned /\ ~req.sharpen /\ ~req.grayscale /\ ~req.webp /\ fault = "none") =>
        /\ ValidIndex
        /\ ret.bytes.kind = "raw"
        /\ ret.bytes = image_bytes
        /\ ret.bytes.name = RequestedPage
        /\ ret.success
        /\ ret.mime = ExtensionMime(RequestedPage)

\* C17 witness: the second page of a two page archive, B.PNG, was served unchanged
\* as image/png
C17_Witness ==
    /\ ppc = "responded"
    /\ ~req.sharpen /\ ~req.grayscale /\ ~req.webp
    /\ req.page_index = 1
    /\ ret.bytes.name = Name.PNG
    /\ ret.mime = "image/png"
    /\ resp.status = 200
    /\ resp.content = image_bytes

\* C18: for a page index below 0 or not below the page count, get_page_image
\* returns no bytes and success False, no page is read, and the endpoint answers
\* 404.
C18_IndexOutOfRange ==
    (PageReturned /\ ~ValidIndex) =>
        /\ ret.bytes = NoneBytes
        /\ ~ret.success
        /\ image_bytes = NoneBytes
        /\ ppc = "responded" => resp.status = 404

\* C18 witness: index -1 on an archive of two pages was refused
C18_Witness ==
    /\ ppc = "responded"
    /\ req.page_index = -1
    /\ Len(GetPages(files)) = 2
    /\ fault = "range"
    /\ ret.bytes = NoneBytes
    /\ resp.status = 404

\* get_page_image or get_page_count has returned
CallReturned == ppc \in {"respond", "responded", "counted"}

\* C28: a call of get_page_image or get_page_count opens at most one archive
\* handle (a handle is opened only when the call has opened none before), and
\* when the call has returned the handle is closed, on every path: fast path,
\* slow path, index out of range, slow-path fallback, and an exception while
\* the pages are listed or read.
C28_HandleClosedOnReturn ==
    /\ [](CallReturned => handle # "open")
    /\ [][handle' = "open" /\ handle # "open" => handle = "none"]_vars

\* C28 witness: a call whose slow path raised has returned through the fallback
\* and the archive it opened is closed
C28_Witness ==
    /\ ppc = "responded"
    /\ fault \in SlowPathFaults
    /\ ret.bytes = image_bytes
    /\ handle = "closed"

\* ========================================================================
\* get_comic_reader_init  (api/reader.py:28-246), the read-init endpoint
\* ========================================================================
\* lines 62-74: is_restricted for a comic with this rating. The ratings of the
\* model are "Teen", "Mature 17+" and an unset one (Null); the banned list
\* get_age_rating_config returns for a user limited to "Teen" holds "Mature 17+"
IsRestricted(user, rating) ==
    \/ user.max_age_rating = "Teen" /\ rating = "Mature 17+"
    \/ ~user.allow_unknown_age_ratings /\ rating = Null

\* get_banned_comic_condition(user): the SQL condition over the columns of a
\* comics row that is true of the comics the user may not read
BannedComic(c) == IsRestricted(current_user, age_rating[c])

\* lines 89-199: the id list of the strategy chosen by context_type and
\* context_id; banned_filter is set for a user with an age limit.
\* pull_list and reading_list (lines 95-125): the query selects the comic_id
\* column of the item table alone; filter(~banned_filter) names columns of
\* comics, which the query does not join, so comics enters the FROM list as a
\* cross join: every item is returned once per comics row that is not banned,
\* whatever the item's own comic is.
\* collection, series and volume (lines 127-199): the query joins or selects
\* from comics, so ~banned_filter is evaluated on the row of each candidate. The
\* comics of the model share volume, series, year and format and are numbered by
\* their id, so every ORDER BY / sort key orders them by id.
ContextIds(r, items) ==
    LET filtered == current_user.max_age_rating # Null
        n == Cardinality({c \in Comics : ~BannedComic(c)})
        joined(candidates) == ListOf({c \in candidates : ~filtered \/ ~BannedComic(c)})
    IN IF r.context_type \in {"pull_list", "reading_list"} /\ r.context_id # 0
       THEN IF filtered
            THEN [i \in 1..(Len(items) * n) |-> items[((i - 1) \div n) + 1]]
            ELSE items
       ELSE IF r.context_type = "collection" /\ r.context_id # 0
       THEN joined({items[i] : i \in 1..Len(items)})
       ELSE joined(Comics)

\* ids.index(comic_id): the first position of c in q, 0 when it raises ValueError
FirstIndex(q, c) ==
    IF \E i \in 1..Len(q) : q[i] = c THEN SetMin({i \in 1..Len(q) : q[i] = c}) ELSE 0

\* lines 202-214: prev_id and next_id, None (0) at the ends of the list and when
\* the comic is not in it
Neighbours(q, c) ==
    LET i == FirstIndex(q, c)
    IN [prev |-> IF i > 1 THEN q[i - 1] ELSE 0,
        next |-> IF i > 0 /\ i < Len(q) THEN q[i + 1] ELSE 0]

\* lines 28-52: a request arrives and the comic is fetched; 404 when there is none
NavRequest ==
    /\ npc = "start"
    /\ \E c \in 0..NComics, k \in {0, 1},
          t \in {"volume", "series", "reading_list", "pull_list", "collection"} :
          /\ nreq' = [comic_id |-> c, context_type |-> t, context_id |-> k]
          /\ IF c \in Comics
             THEN npc' = "check" /\ UNCHANGED nresp
             ELSE npc' = "responded" /\ nresp' = [NoNavResp EXCEPT !.status = 404]
    /\ UNCHANGED <<scanVars, thumbVars, archVars, pageVars, age_rating, current_user,
                   context_items, ids>>

\* lines 54-76: the library access check (404) and the age rating check of the
\* requested comic (403)
NavCheck ==
    /\ npc = "check"
    /\ IF ~current_user.library_ok
       THEN npc' = "responded" /\ nresp' = [NoNavResp EXCEPT !.status = 404]
       ELSE IF current_user.max_age_rating # Null
               /\ IsRestricted(current_user, age_rating[nreq.comic_id])
       THEN npc' = "responded" /\ nresp' = [NoNavResp EXCEPT !.status = 403]
       ELSE npc' = "query" /\ UNCHANGED nresp
    /\ UNCHANGED <<scanVars, thumbVars, archVars, pageVars, age_rating, current_user,
                   context_items, nreq, ids>>

\* lines 80-199: the id list of the context
NavQuery ==
    /\ npc = "query"
    /\ ids' = ContextIds(nreq, context_items)
    /\ npc' = "neighbours"
    /\ UNCHANGED <<scanVars, thumbVars, archVars, pageVars, age_rating, current_user,
                   context_items, nreq, nresp>>

\* lines 201-246: the neighbours and the response. When ids is not empty and does
\* not hold the comic, current_idx is unbound at line 242 and the request fails
NavRespond ==
    /\ npc = "neighbours"
    /\ npc' = "responded"
    /\ nresp' = IF ids # <<>> /\ FirstIndex(ids, nreq.comic_id) = 0
                THEN [NoNavResp EXCEPT !.status = 500]
                ELSE [status |-> 200,
                      prev_comic_id |-> Neighbours(ids, nreq.comic_id).prev,
                      next_comic_id |-> Neighbours(ids, nreq.comic_id).next]
    /\ UNCHANGED <<scanVars, thumbVars, archVars, pageVars, age_rating, current_user,
                   context_items, nreq, ids>>

\* one read-init request of one user (without a limit, or limited to "Teen" with
\* or without the unknown ratings allowed; library_ok: a superuser, or the
\* comic's library is accessible), on a comics table with any ratings and a
\* context list of at most MaxItems distinct comics
InitNav ==
    /\ InitScanManager
    /\ ThumbQuiescent
    /\ files = <<>>
    /\ ArchiveQuiescent
    /\ PageQuiescent
    /\ age_rating \in [Comics -> {"Teen", "Mature 17+", Null}]
    /\ current_user \in [max_age_rating : {Null, "Teen"},
                         allow_unknown_age_ratings : BOOLEAN, library_ok : BOOLEAN]
    /\ context_items \in DistinctSeqs(Comics, MaxItems)
    /\ nreq = [comic_id |-> 0, context_type |-> "volume", context_id |-> 0]
    /\ npc = "start"
    /\ ids = <<>>
    /\ nresp = NoNavResp

NextNav ==
    \/ NavRequest
    \/ NavCheck
    \/ NavQuery
    \/ NavRespond

SpecNav == InitNav /\ [][NextNav]_vars

\* ========================================================================
\* Claims about the reader initialisation (checked under SpecNav)
\* ========================================================================

\* C22: for a user with an age limit, the prev_comic_id and the next_comic_id of
\* a read-init response are never ids of comics the user's banned-comic condition
\* excludes, in any context type.
C22_NoBannedNeighbour ==
    (nresp.status = 200 /\ current_user.max_age_rating # Null) =>
        /\ nresp.prev_comic_id # 0 => ~BannedComic(nresp.prev_comic_id)
        /\ nresp.next_comic_id # 0 => ~BannedComic(nresp.next_comic_id)

====
